---- MODULE Spec2Model ----
(***************************************************************************)
(* The UCI protocol layer of lc0 (src/chess/uciloop.cc): keyword           *)
(* tokenizer, command grammar parser, option-setting sub-parser, request   *)
(* dispatcher.  Text is modelled as a sequence of one-character strings;   *)
(* positions are 0-based as in the C++ code, a C++ position p is the       *)
(* element p+1 of the TLA+ sequence.                                       *)
(***************************************************************************)
EXTENDS Integers, Sequences, FiniteSets, TLC

\* pc       where the command loop is: "idle" before a line, "done" after one
\* line     the input line given to ProcessLine
\* command  what ParseCommand returned for it
\* error    the exception ProcessLine ended with ("" when it returned)
\* calls    the engine-controller and option-store calls made for the line
\* output   the response lines sent for the line
\* result   ProcessLine's return value (FALSE: leave the loop)
\* first    the first line ever processed, with what processing it gave
\* parts    the NAME, VALUE and CONTEXT word lists a setoption line was
\*          written from (all empty for a line not written that way)
\* info     the argument of the last call of the response formatter
\* options_ the display options the formatter reads (null before
\*          PopulateParams)
\* threads  for each thread calling the formatter, where it is in its call
\* output_mutex  the thread that holds the output lock (0: nobody)
\* sink     the lines written to standard output, each with the call it is of
\* find_args the arguments FindBoundedKeywordOccurrence is called with on
\*          its own
\* found    what it returned for them (set: it has been called)
\* tau_args the arguments EffectiveTau is called with
\* tau      what it returned for them (set: it has been called)
VARIABLES pc, line, command, error, calls, output, result, first, parts,
          info, options_, threads, output_mutex, sink, tau_args, tau,
          find_args, found

\* the variables of the response formatter
fvars == <<info, options_, threads, output_mutex, sink>>

\* the variables of the functions called on their own
tvars == <<tau_args, tau, find_args, found>>

vars == <<pc, line, command, error, calls, output, result, first, parts,
          info, options_, threads, output_mutex, sink, tau_args, tau,
          find_args, found>>

(***************************************************************************)
(* Characters and words                                                    *)
(***************************************************************************)
SP == " "
TAB == "\t"

\* std::isspace in the "C" locale: space, \t, \n, \v, \f, \r ("VT" names \v).
WhiteSpace == {" ", "\t", "\n", "\r", "\f", "VT"}

IsSpace(c) == c \in WhiteSpace

W_uci == <<"u","c","i">>
W_isready == <<"i","s","r","e","a","d","y">>
W_setoption == <<"s","e","t","o","p","t","i","o","n">>
W_ucinewgame == <<"u","c","i","n","e","w","g","a","m","e">>
W_position == <<"p","o","s","i","t","i","o","n">>
W_go == <<"g","o">>
W_stop == <<"s","t","o","p">>
W_ponderhit == <<"p","o","n","d","e","r","h","i","t">>
W_quit == <<"q","u","i","t">>
W_xyzzy == <<"x","y","z","z","y">>
W_fen == <<"f","e","n">>
W_startpos == <<"s","t","a","r","t","p","o","s">>
W_moves == <<"m","o","v","e","s">>
W_name == <<"n","a","m","e">>
W_value == <<"v","a","l","u","e">>
W_context == <<"c","o","n","t","e","x","t">>
W_infinite == <<"i","n","f","i","n","i","t","e">>
W_ponder == <<"p","o","n","d","e","r">>
W_searchmoves == <<"s","e","a","r","c","h","m","o","v","e","s">>
W_wtime == <<"w","t","i","m","e">>
W_btime == <<"b","t","i","m","e">>
W_winc == <<"w","i","n","c">>
W_binc == <<"b","i","n","c">>
W_movestogo == <<"m","o","v","e","s","t","o","g","o">>
W_depth == <<"d","e","p","t","h">>
W_mate == <<"m","a","t","e">>
W_nodes == <<"n","o","d","e","s">>
W_movetime == <<"m","o","v","e","t","i","m","e">>

\* The key under which ParseCommand stores the raw setoption arguments.
K_args == <<"a","r","g","s","_","f","o","r","_","s","e","t","o","p","t","i","o","n">>

\* ChessBoard::kStartposFen, the standard starting position.
kStartposFen == <<"S","T","A","R","T","P","O","S","F","E","N">>

Min(S) == CHOOSE x \in S : \A y \in S : x <= y
Max(S) == CHOOSE x \in S : \A y \in S : x >= y

\* std::string_view::npos
npos == -1

(***************************************************************************)
(* kKnownCommands: command name -> set of recognized keywords              *)
(***************************************************************************)
GoKeywords == {W_infinite, W_wtime, W_btime, W_winc, W_binc, W_movestogo,
               W_depth, W_mate, W_nodes, W_movetime, W_searchmoves, W_ponder}

kKnownCommands ==
  (W_uci :> {}) @@ (W_isready :> {}) @@
  (W_setoption :> {W_context, W_name, W_value}) @@
  (W_ucinewgame :> {}) @@
  (W_position :> {W_fen, W_startpos, W_moves}) @@
  (W_go :> GoKeywords) @@
  (W_stop :> {}) @@ (W_ponderhit :> {}) @@ (W_quit :> {}) @@
  (W_xyzzy :> {}) @@ (W_fen :> {})

(***************************************************************************)
(* Library string operations, by what they do                              *)
(***************************************************************************)
\* utils::string::Trim: the text without leading and trailing whitespace.
Trim(s) ==
  LET idx == {i \in 1..Len(s) : ~IsSpace(s[i])}
  IN IF idx = {} THEN <<>> ELSE SubSeq(s, Min(idx), Max(idx))

\* keyword occurs in text at 0-based position p
MatchAt(text, keyword, p) ==
  /\ p >= 0
  /\ p + Len(keyword) <= Len(text)
  /\ \A k \in 1..Len(keyword) : text[p + k] = keyword[k]

\* std::string_view::find(keyword, from): the least position >= from
StrFind(text, keyword, from) ==
  LET S == {p \in from..(Len(text) - Len(keyword)) : MatchAt(text, keyword, p)}
  IN IF S = {} THEN npos ELSE Min(S)

\* std::string_view::rfind(keyword, from): the greatest position <= from
StrRFind(text, keyword, from) ==
  LET S == {p \in 0..(Len(text) - Len(keyword)) :
              p <= from /\ MatchAt(text, keyword, p)}
  IN IF S = {} THEN npos ELSE Max(S)

\* remove_prefix(n)
RemovePrefix(s, n) == SubSeq(s, n + 1, Len(s))

\* substr(0, n)
Prefix(s, n) == SubSeq(s, 1, n)

(***************************************************************************)
(* FindBoundedKeywordOccurrence                                            *)
(***************************************************************************)
\* A variant of space_before that accepts a keyword inside a longer token.
SpaceBeforeIgnored(text, pos) == TRUE

space_before(text, pos) == pos = 0 \/ IsSpace(text[pos])

space_after(text, keyword, pos) ==
  \/ pos + Len(keyword) = Len(text)
  \/ IsSpace(text[pos + Len(keyword) + 1])

\* current_scan_pos < keyword.length() - 1 in size_t arithmetic: for an empty
\* keyword the right-hand side wraps to the greatest size_t.
BelowKeywordLengthMinus1(x, keyword) ==
  IF Len(keyword) = 0 THEN TRUE ELSE x < Len(keyword) - 1

\* The find_last loop, entered at its condition with loop variable i.
RECURSIVE FindLastLoop(_, _, _, _)
FindLastLoop(text, keyword, search_start_pos, i) ==
  IF ~(i > search_start_pos) THEN npos
  ELSE
    LET scan0 == i - 1 IN
    IF BelowKeywordLengthMinus1(scan0, keyword) THEN npos
    ELSE IF Len(text) - scan0 < Len(keyword) /\ Len(keyword) > Len(text)
      THEN FindLastLoop(text, keyword, search_start_pos, i - 1)
    ELSE
      LET current_scan_pos ==
            IF Len(text) - scan0 < Len(keyword)
              THEN Len(text) - Len(keyword) ELSE scan0
          pos == StrRFind(text, keyword, current_scan_pos)
      IN IF pos = npos
           THEN FindLastLoop(text, keyword, search_start_pos, i - 1)
         ELSE IF space_before(text, pos) /\ space_after(text, keyword, pos)
           THEN pos
         ELSE IF pos = 0 THEN npos
         ELSE FindLastLoop(text, keyword, search_start_pos, pos - 1)

\* The forward loop, entered at its condition.
RECURSIVE FindFirstLoop(_, _, _)
FindFirstLoop(text, keyword, current_search_offset) ==
  IF ~(current_search_offset < Len(text)) THEN npos
  ELSE
    LET pos == StrFind(text, keyword, current_search_offset)
    IN IF pos = npos THEN npos
       ELSE IF space_before(text, pos) /\ space_after(text, keyword, pos)
         THEN pos
       ELSE FindFirstLoop(text, keyword, pos + 1)

\* A variant of FindBoundedKeywordOccurrence that searches forward whatever
\* find_last says.
FindBoundedForwardOnly(text, keyword, search_start_pos, find_last) ==
  FindFirstLoop(text, keyword, search_start_pos)

FindBoundedKeywordOccurrence(text, keyword, search_start_pos, find_last) ==
  IF find_last
    THEN FindLastLoop(text, keyword, search_start_pos, Len(text))
    ELSE FindFirstLoop(text, keyword, search_start_pos)

(***************************************************************************)
(* ParseSetOption                                                          *)
(***************************************************************************)
Fail(kind) == [ok |-> FALSE, err |-> kind]

\* step 1: the arguments begin with "name" followed by whitespace
HasNamePrefix(args) ==
  /\ StrRFind(args, W_name, 0) = 0
  /\ Len(args) > Len(W_name)
  /\ IsSpace(args[Len(W_name) + 1])

\* A variant of SplitValueContext without the check for an empty context.
SplitValueContextUnchecked(name, rest) ==
  LET context_keyword_pos ==
        FindBoundedKeywordOccurrence(rest, W_context, 0, TRUE)
      option_value ==
        IF context_keyword_pos # npos
          THEN Trim(Prefix(rest, context_keyword_pos)) ELSE Trim(rest)
      with_context ==
        IF context_keyword_pos # npos
          THEN (W_context :>
                  Trim(RemovePrefix(rest, context_keyword_pos + Len(W_context))))
          ELSE [k \in {} |-> <<>>]
  IN IF option_value = <<>> THEN [ok |-> FALSE, err |-> "EmptyOptionValue"]
     ELSE [ok |-> TRUE,
           params |-> (W_name :> name) @@ with_context @@ (W_value :> option_value)]

\* step 3: split the text after "value" at the last bounded "context"
SplitValueContext(name, rest) ==
  LET context_keyword_pos ==
        FindBoundedKeywordOccurrence(rest, W_context, 0, TRUE)
  IN IF context_keyword_pos # npos
       THEN LET option_value == Trim(Prefix(rest, context_keyword_pos))
                option_context ==
                  Trim(RemovePrefix(rest, context_keyword_pos + Len(W_context)))
            IN IF option_context = <<>> THEN Fail("EmptyContext")
               ELSE IF option_value = <<>> THEN Fail("EmptyOptionValue")
               ELSE [ok |-> TRUE,
                     params |-> (W_name :> name) @@ (W_context :> option_context)
                                @@ (W_value :> option_value)]
       ELSE LET option_value == Trim(rest)
            IN IF option_value = <<>> THEN Fail("EmptyOptionValue")
               ELSE [ok |-> TRUE,
                     params |-> (W_name :> name) @@ (W_value :> option_value)]

ParseSetOption(command_args) ==
  LET args0 == Trim(command_args) IN
  IF ~HasNamePrefix(args0) THEN Fail("MalformedSetoptionExpectedName")
  ELSE
    LET args1 == Trim(RemovePrefix(args0, Len(W_name)))
        value_keyword_pos ==
          FindBoundedKeywordOccurrence(args1, W_value, 0, FALSE)
    IN IF value_keyword_pos = npos THEN Fail("MalformedSetoptionMissingValue")
       ELSE
         LET option_name == Trim(Prefix(args1, value_keyword_pos))
         IN IF option_name = <<>> THEN Fail("EmptyOptionName")
            ELSE SplitValueContext(
                   option_name,
                   Trim(RemovePrefix(args1, value_keyword_pos + Len(W_value))))

(***************************************************************************)
(* ParseCommand                                                            *)
(***************************************************************************)
\* value_ptr before the first keyword
nullptr == "nullptr"

\* A variant of FreshParams that keeps the parameters of the previous call
\* (as a map with static storage would).
StaleParams == IF command.ok THEN command.params ELSE [k \in {} |-> <<>>]

\* std::unordered_map<std::string, std::string> params; (a fresh local)
FreshParams == [k \in {} |-> <<>>]

\* find_first_of(" \t\n\r\f\v")
FindFirstSpace(s) ==
  LET S == {p \in 0..(Len(s) - 1) : s[p + 1] \in WhiteSpace}
  IN IF S = {} THEN npos ELSE Min(S)

\* iss >> token, for a stream over the text: skip whitespace, read up to
\* whitespace.
RECURSIVE Tokenize(_)
Tokenize(s) ==
  IF s = <<>> THEN <<>>
  ELSE IF IsSpace(Head(s)) THEN Tokenize(Tail(s))
  ELSE LET sp == FindFirstSpace(s)
       IN IF sp = npos THEN <<s>>
          ELSE <<Prefix(s, sp)>> \o Tokenize(RemovePrefix(s, sp))

\* A variant of KeywordSeen that leaves the value of a repeated keyword.
KeywordSeenKeepsValue(params, token) ==
  IF token \in DOMAIN params THEN params ELSE (token :> <<>>) @@ params

\* value_ptr = &params[token]; *value_ptr = "";
KeywordSeen(params, token) == (token :> <<>>) @@ params

\* The while (iss >> token) loop of ParseCommand.
RECURSIVE ParseTokens(_, _, _, _, _)
ParseTokens(tokens, keywords, params, value_ptr, accumulated_whitespace) ==
  IF tokens = <<>> THEN [ok |-> TRUE, params |-> params]
  ELSE
    LET token == Head(tokens) IN
    IF token \notin keywords
      THEN IF value_ptr = nullptr
             THEN [ok |-> FALSE, err |-> "UnexpectedToken"]
             ELSE ParseTokens(Tail(tokens), keywords,
                    [params EXCEPT ![value_ptr] =
                                     @ \o accumulated_whitespace \o token],
                    value_ptr, <<SP>>)
      ELSE ParseTokens(Tail(tokens), keywords,
                       KeywordSeen(params, token), token, <<>>)

\* The blank-line result: an empty name and no parameters.
NoCommand == [ok |-> TRUE, name |-> <<>>, params |-> [k \in {} |-> <<>>]]

\* A variant of UnknownCommandResult that takes an unknown command for a
\* blank line.
UnknownCommandIgnored(cmd_name, rest) == NoCommand

\* The command name is no key of kKnownCommands.
UnknownCommandResult(cmd_name, rest) ==
  IF cmd_name = <<>> /\ rest = <<>> THEN NoCommand
  ELSE [ok |-> FALSE, err |-> "UnknownCommand"]

ParseCommand(input) ==
  LET line_sv == Trim(input) IN
  IF line_sv = <<>> THEN NoCommand
  ELSE
    LET space_pos == FindFirstSpace(line_sv)
        cmd_name == IF space_pos = npos THEN line_sv
                    ELSE Prefix(line_sv, space_pos)
        rest == IF space_pos = npos THEN <<>>
                ELSE Trim(RemovePrefix(line_sv, space_pos))
    IN IF cmd_name \notin DOMAIN kKnownCommands
         THEN UnknownCommandResult(cmd_name, rest)
       ELSE IF cmd_name = W_setoption
         THEN [ok |-> TRUE, name |-> cmd_name,
               params |-> (K_args :> rest) @@ FreshParams]
       ELSE
         LET r == ParseTokens(Tokenize(rest), kKnownCommands[cmd_name],
                              FreshParams, nullptr, <<>>)
         IN IF r.ok THEN [ok |-> TRUE, name |-> cmd_name, params |-> r.params]
            ELSE r

GetOrEmpty(params, key) ==
  IF key \in DOMAIN params THEN params[key] ELSE <<>>

ContainsKey(params, key) == key \in DOMAIN params

(***************************************************************************)
(* GetNumeric and std::stoi                                                *)
(***************************************************************************)
\* INT_MAX and INT_MIN / 10 of a 32-bit int
IntMax == 2147483647
IntMinDiv10 == -214748364

DigitVal == ("0" :> 0) @@ ("1" :> 1) @@ ("2" :> 2) @@ ("3" :> 3) @@ ("4" :> 4)
            @@ ("5" :> 5) @@ ("6" :> 6) @@ ("7" :> 7) @@ ("8" :> 8) @@ ("9" :> 9)

IsDigit(c) == c \in DOMAIN DigitVal

RECURSIVE SkipSpace(_)
SkipSpace(s) ==
  IF s # <<>> /\ IsSpace(Head(s)) THEN SkipSpace(Tail(s)) ELSE s

RECURSIVE LeadingDigits(_)
LeadingDigits(s) ==
  IF s # <<>> /\ IsDigit(Head(s)) THEN <<Head(s)>> \o LeadingDigits(Tail(s))
  ELSE <<>>

\* The digits accumulated as a non-positive number acc (the negated magnitude),
\* saturating: over is set once the magnitude exceeds -INT_MIN.
RECURSIVE Accumulate(_, _, _)
Accumulate(digits, acc, over) ==
  IF digits = <<>> THEN [over |-> over, acc |-> acc]
  ELSE
    LET d == DigitVal[Head(digits)] IN
    IF over \/ acc < IntMinDiv10 \/ (acc = IntMinDiv10 /\ d > 8)
      THEN Accumulate(Tail(digits), acc, TRUE)
      ELSE Accumulate(Tail(digits), acc * 10 - d, FALSE)

\* std::stoi(str): leading whitespace, an optional sign, decimal digits; what
\* follows the digits is ignored.  invalid_argument without a digit,
\* out_of_range when the value is no int.
Stoi(str) ==
  LET s0 == SkipSpace(str)
      neg == s0 # <<>> /\ Head(s0) = "-"
      s1 == IF s0 # <<>> /\ Head(s0) \in {"+", "-"} THEN Tail(s0) ELSE s0
      digits == LeadingDigits(s1)
      a == Accumulate(digits, 0, FALSE)
  IN IF digits = <<>> THEN [ok |-> FALSE, err |-> "InvalidValue"]
     ELSE IF a.over \/ (~neg /\ a.acc < -IntMax)
       THEN [ok |-> FALSE, err |-> "OutOfRange"]
     ELSE [ok |-> TRUE, val |-> IF neg THEN a.acc ELSE -a.acc]

GetNumeric(params, key) ==
  IF key \notin DOMAIN params THEN [ok |-> FALSE, err |-> "UnexpectedError"]
  ELSE IF params[key] = <<>> THEN [ok |-> FALSE, err |-> "ExpectedValueAfter"]
  ELSE Stoi(params[key])

(***************************************************************************)
(* DispatchCommand                                                         *)
(***************************************************************************)
\* StrSplitAtWhitespace: the whitespace-separated tokens, in order
StrSplitAtWhitespace(s) == Tokenize(s)

\* GetVersionStr()
VersionStr == "VERSION"

\* StringUciResponder::SendId: the lines it sends
SendId == << <<"id name Lc0 v", VersionStr>>,
             <<"id author The LCZero Authors.">> >>

\* options_->ListOptionsUci(): one declaration line per option of the store
\* (the three options PopulateParams adds)
ListOptionsUci == << <<"option name UCI_Chess960">>,
                     <<"option name UCI_ShowWDL">>,
                     <<"option name UCI_ShowMovesLeft">> >>

\* What one DispatchCommand call did: the exception that ended it ("" when it
\* returned), the engine and option-store calls and the response lines it made
\* before that, and its return value.
Returned(cs, out, ret) == [err |-> "", calls |-> cs, out |-> out, ret |-> ret]
Thrown(kind, cs, out) == [err |-> kind, calls |-> cs, out |-> out, ret |-> TRUE]

\* A variant of DefaultGoParams in which depth starts at zero.
DefaultGoParamsZeroDepth ==
  ("infinite" :> FALSE) @@ ("ponder" :> FALSE) @@ ("searchmoves" :> <<>>)
  @@ ("depth" :> 0)

\* GoParams as default-constructed: the flags false, no search moves, every
\* numeric field unset (absent from the domain)
DefaultGoParams ==
  ("infinite" :> FALSE) @@ ("ponder" :> FALSE) @@ ("searchmoves" :> <<>>)

\* The numeric fields in the order of the UCIGOOPTION lines
GoNumericKeys == <<W_wtime, W_btime, W_winc, W_binc, W_movestogo, W_depth,
                   W_mate, W_nodes, W_movetime>>

GoFieldName ==
  (W_wtime :> "wtime") @@ (W_btime :> "btime") @@ (W_winc :> "winc") @@
  (W_binc :> "binc") @@ (W_movestogo :> "movestogo") @@ (W_depth :> "depth") @@
  (W_mate :> "mate") @@ (W_nodes :> "nodes") @@ (W_movetime :> "movetime")

\* A variant of GoFlag that sets the flag whatever follows the keyword.
GoFlagAnyValue(st, params, key, field) ==
  IF st.err # "" \/ ~ContainsKey(params, key) THEN st
  ELSE [st EXCEPT !.go = (field :> TRUE) @@ @]

\* if (ContainsKey(params, flag)) { if (!empty) throw; go_params.flag = true; }
GoFlag(st, params, key, field) ==
  IF st.err # "" \/ ~ContainsKey(params, key) THEN st
  ELSE IF GetOrEmpty(params, key) # <<>>
    THEN [st EXCEPT !.err = "UnexpectedTokenAfterFlag"]
  ELSE [st EXCEPT !.go = (field :> TRUE) @@ @]

GoSearchMoves(st, params) ==
  IF st.err # "" \/ ~ContainsKey(params, W_searchmoves) THEN st
  ELSE [st EXCEPT !.go = ("searchmoves" :>
                            StrSplitAtWhitespace(GetOrEmpty(params, W_searchmoves)))
                         @@ @]

\* UCIGOOPTION(x)
UCIGOOPTION(st, params, key) ==
  IF st.err # "" \/ ~ContainsKey(params, key) THEN st
  ELSE LET n == GetNumeric(params, key)
       IN IF n.ok THEN [st EXCEPT !.go = (GoFieldName[key] :> n.val) @@ @]
          ELSE [st EXCEPT !.err = n.err]

RECURSIVE GoNumerics(_, _, _)
GoNumerics(st, params, keys) ==
  IF keys = <<>> THEN st
  ELSE GoNumerics(UCIGOOPTION(st, params, Head(keys)), params, Tail(keys))

\* The go branch up to the call of engine_->Go
BuildGoParams(params) ==
  LET s0 == [err |-> "", go |-> DefaultGoParams]
      s1 == GoFlag(s0, params, W_infinite, "infinite")
      s2 == GoSearchMoves(s1, params)
      s3 == GoFlag(s2, params, W_ponder, "ponder")
  IN GoNumerics(s3, params, GoNumericKeys)

\* A variant of DispatchGo that calls Go before the numeric fields are checked.
DispatchGoBeforeValidation(params) ==
  LET b == BuildGoParams(params)
  IN IF b.err # "" THEN Thrown(b.err, <<[op |-> "Go", go |-> b.go]>>, <<>>)
     ELSE Returned(<<[op |-> "Go", go |-> b.go]>>, <<>>, TRUE)

DispatchGo(params) ==
  LET b == BuildGoParams(params)
  IN IF b.err # "" THEN Thrown(b.err, <<>>, <<>>)
     ELSE Returned(<<[op |-> "Go", go |-> b.go]>>, <<>>, TRUE)

\* A variant of DispatchPosition that rejects only a line with neither fen nor
\* startpos.
DispatchPositionNeitherOnly(params) ==
  IF ~ContainsKey(params, W_fen) /\ ~ContainsKey(params, W_startpos)
    THEN Thrown("PositionRequiresFenOrStartpos", <<>>, <<>>)
  ELSE
    LET moves == StrSplitAtWhitespace(GetOrEmpty(params, W_moves))
        fen == GetOrEmpty(params, W_fen)
    IN Returned(<<[op |-> "SetPosition",
                   fen |-> IF fen = <<>> THEN kStartposFen ELSE fen,
                   moves |-> moves]>>, <<>>, TRUE)

\* A variant of DispatchPosition that passes the fen value on as it is.
DispatchPositionRawFen(params) ==
  IF ContainsKey(params, W_fen) = ContainsKey(params, W_startpos)
    THEN Thrown("PositionRequiresFenOrStartpos", <<>>, <<>>)
  ELSE Returned(<<[op |-> "SetPosition",
                   fen |-> GetOrEmpty(params, W_fen),
                   moves |-> StrSplitAtWhitespace(GetOrEmpty(params, W_moves))]>>,
                <<>>, TRUE)

\* A variant of DispatchPosition that rejects a startpos keyword followed by
\* a word, as the go branch does for its flags.
DispatchPositionStartposBare(params) ==
  IF ContainsKey(params, W_fen) = ContainsKey(params, W_startpos)
    THEN Thrown("PositionRequiresFenOrStartpos", <<>>, <<>>)
  ELSE IF GetOrEmpty(params, W_startpos) # <<>>
    THEN Thrown("UnexpectedTokenAfterFlag", <<>>, <<>>)
  ELSE
    LET moves == StrSplitAtWhitespace(GetOrEmpty(params, W_moves))
        fen == GetOrEmpty(params, W_fen)
    IN Returned(<<[op |-> "SetPosition",
                   fen |-> IF fen = <<>> THEN kStartposFen ELSE fen,
                   moves |-> moves]>>, <<>>, TRUE)

DispatchPosition(params) ==
  IF ContainsKey(params, W_fen) = ContainsKey(params, W_startpos)
    THEN Thrown("PositionRequiresFenOrStartpos", <<>>, <<>>)
  ELSE
    LET moves == StrSplitAtWhitespace(GetOrEmpty(params, W_moves))
        fen == GetOrEmpty(params, W_fen)
    IN Returned(<<[op |-> "SetPosition",
                   fen |-> IF fen = <<>> THEN kStartposFen ELSE fen,
                   moves |-> moves]>>, <<>>, TRUE)

DispatchSetOption(params) ==
  LET parsed == ParseSetOption(GetOrEmpty(params, K_args))
  IN IF ~parsed.ok THEN Thrown(parsed.err, <<>>, <<>>)
     ELSE Returned(<<[op |-> "SetUciOption",
                      name |-> parsed.params[W_name],
                      value |-> parsed.params[W_value],
                      context |-> IF W_context \in DOMAIN parsed.params
                                    THEN parsed.params[W_context] ELSE <<>>]>>,
                   <<>>, TRUE)

\* A variant of DispatchUci that acknowledges before it lists the options.
DispatchUciAckFirst ==
  Returned(<<>>, SendId \o << <<"uciok">> >> \o ListOptionsUci, TRUE)

\* The uci branch: SendId, one SendRawResponse per option, then "uciok"
DispatchUci ==
  Returned(<<>>, SendId \o ListOptionsUci \o << <<"uciok">> >>, TRUE)

DispatchCommand(cmd, params) ==
  IF cmd = W_uci THEN DispatchUci
  ELSE IF cmd = W_isready
    THEN Returned(<<[op |-> "EnsureReady"]>>, << <<"readyok">> >>, TRUE)
  ELSE IF cmd = W_setoption THEN DispatchSetOption(params)
  ELSE IF cmd = W_ucinewgame THEN Returned(<<[op |-> "NewGame"]>>, <<>>, TRUE)
  ELSE IF cmd = W_position THEN DispatchPosition(params)
  ELSE IF cmd = W_go THEN DispatchGo(params)
  ELSE IF cmd = W_stop THEN Returned(<<[op |-> "Stop"]>>, <<>>, TRUE)
  ELSE IF cmd = W_ponderhit THEN Returned(<<[op |-> "PonderHit"]>>, <<>>, TRUE)
  ELSE IF cmd = W_xyzzy
    THEN Returned(<<>>, << <<"Nothing happens.">> >>, TRUE)
  ELSE IF cmd = W_quit THEN Returned(<<>>, <<>>, FALSE)
  ELSE Thrown("UnknownCommandInDispatch", <<>>, <<>>)

(***************************************************************************)
(* UciLoop::ProcessLine                                                    *)
(***************************************************************************)
\* A variant of ProcessLineOutcome that returns false for a line without a
\* command.
ProcessLineOutcomeBlankStops(input) ==
  LET c == ParseCommand(input)
  IN IF ~c.ok THEN [command |-> c, d |-> Thrown(c.err, <<>>, <<>>)]
     ELSE IF c.name = <<>> THEN [command |-> c, d |-> Returned(<<>>, <<>>, FALSE)]
     ELSE [command |-> c, d |-> DispatchCommand(c.name, c.params)]

\* What ProcessLine(input) does: the parsed command, and the outcome of the
\* dispatch when there is one.
ProcessLineOutcome(input) ==
  LET c == ParseCommand(input)
  IN IF ~c.ok THEN [command |-> c, d |-> Thrown(c.err, <<>>, <<>>)]
     ELSE IF c.name = <<>> THEN [command |-> c, d |-> Returned(<<>>, <<>>, TRUE)]
     ELSE [command |-> c, d |-> DispatchCommand(c.name, c.params)]

(***************************************************************************)
(* StringUciResponder: the response formatter                              *)
(***************************************************************************)
\* A response line is modelled as the sequence of the words appended to it.

\* std::to_string(int)
DigitStr == <<"0", "1", "2", "3", "4", "5", "6", "7", "8", "9">>

RECURSIVE NatToString(_)
NatToString(n) ==
  IF n < 10 THEN DigitStr[n + 1]
  ELSE NatToString(n \div 10) \o DigitStr[(n % 10) + 1]

to_string(n) == IF n < 0 THEN "-" \o NatToString(-n) ELSE NatToString(n)

\* Move(): the null move
NullMove == "0000"

\* Move::ToString(c960): castling is written king-to-rook in Chess960
\* notation and king-to-target otherwise
MoveToString(m, c960) ==
  IF m = "O-O" THEN (IF c960 THEN "e1h1" ELSE "e1g1") ELSE m

\* StringUciResponder::IsChess960
IsChess960(opts) == IF opts.null THEN FALSE ELSE opts.UCI_Chess960

\* if (x != -1) res += " name " + std::to_string(x);
UnlessMinusOne(name, x) == IF x # -1 THEN <<name, to_string(x)>> ELSE <<>>

\* if (x >= 0) res += " name " + std::to_string(x);
UnlessNegative(name, x) == IF x >= 0 THEN <<name, to_string(x)>> ELSE <<>>

\* if (is_black) res += " side " + (*is_black ? "black" : "white");
SideField(is_black) ==
  IF is_black # <<>>
    THEN <<"side", IF is_black[1] THEN "black" ELSE "white">>
  ELSE <<>>

\* The line OutputThinkingInfo builds for one record
FormatThinkingInfo(i, opts) ==
  <<"info">>
  \o UnlessMinusOne("player", i.player)
  \o UnlessMinusOne("gameid", i.game_id)
  \o SideField(i.is_black)
  \o (IF i.depth >= 0 THEN <<"depth", to_string(Max({i.depth, 1}))>> ELSE <<>>)
  \o UnlessNegative("seldepth", i.seldepth)
  \o UnlessNegative("time", i.time)
  \o UnlessNegative("nodes", i.nodes)
  \o (IF i.mate # <<>> THEN <<"score", "mate", to_string(i.mate[1])>> ELSE <<>>)
  \o (IF i.score # <<>> THEN <<"score", "cp", to_string(i.score[1])>> ELSE <<>>)
  \o (IF i.wdl # <<>> /\ ~opts.null /\ opts.UCI_ShowWDL
        THEN <<"wdl", to_string(i.wdl[1].w), to_string(i.wdl[1].d),
               to_string(i.wdl[1].l)>>
        ELSE <<>>)
  \o (IF i.moves_left # <<>> /\ ~opts.null /\ opts.UCI_ShowMovesLeft
        THEN <<"movesleft", to_string(i.moves_left[1])>>
        ELSE <<>>)
  \o UnlessNegative("hashfull", i.hashfull)
  \o UnlessNegative("nps", i.nps)
  \o UnlessNegative("tbhits", i.tb_hits)
  \o UnlessNegative("multipv", i.multipv)
  \o (IF i.pv # <<>>
        THEN <<"pv">> \o [k \in 1..Len(i.pv) |->
                             MoveToString(i.pv[k], IsChess960(opts))]
        ELSE <<>>)
  \o (IF i.comment # "" THEN <<"string", i.comment>> ELSE <<>>)

\* StringUciResponder::OutputThinkingInfo: the lines it hands to
\* SendRawResponses in one call
OutputThinkingInfo(infos, opts) ==
  [k \in 1..Len(infos) |-> FormatThinkingInfo(infos[k], opts)]

\* A variant of OutputBestMove that appends gameid before player.
OutputBestMoveGameIdFirst(bm, opts) ==
  << <<"bestmove", MoveToString(bm.bestmove, IsChess960(opts))>>
     \o (IF bm.ponder # NullMove
           THEN <<"ponder", MoveToString(bm.ponder, IsChess960(opts))>>
           ELSE <<>>)
     \o UnlessMinusOne("gameid", bm.game_id)
     \o UnlessMinusOne("player", bm.player)
     \o SideField(bm.is_black) >>

\* StringUciResponder::OutputBestMove: the line it hands to SendRawResponse
OutputBestMove(bm, opts) ==
  << <<"bestmove", MoveToString(bm.bestmove, IsChess960(opts))>>
     \o (IF bm.ponder # NullMove
           THEN <<"ponder", MoveToString(bm.ponder, IsChess960(opts))>>
           ELSE <<>>)
     \o UnlessMinusOne("player", bm.player)
     \o UnlessMinusOne("gameid", bm.game_id)
     \o SideField(bm.is_black) >>

(***************************************************************************)
(* EffectiveTau (search/common/temperature.cc)                             *)
(***************************************************************************)
\* A float is modelled as the fraction it stands for, [n, d] in lowest terms
\* with d > 0; rounding is not modelled.
RECURSIVE GCD(_, _)
GCD(a, b) == IF b = 0 THEN a ELSE GCD(b, a % b)

Abs(x) == IF x < 0 THEN -x ELSE x

Frac(n, d) ==
  LET g == GCD(Abs(n), Abs(d))
      sgn == IF d < 0 THEN -1 ELSE 1
  IN [n |-> sgn * (n \div g), d |-> sgn * (d \div g)]

FracMul(a, b) == Frac(a.n * b.n, a.d * b.d)

FracLess(a, b) == a.n * b.d < b.n * a.d

Zero == Frac(0, 1)

\* int / int of C++: the quotient truncated toward zero (b > 0)
CDiv(a, b) == IF a >= 0 THEN a \div b ELSE -((-a) \div b)

\* A variant of EffectiveTau whose cutoff compares moves, not moves + 1.
EffectiveTauCutoffLate(ply, initial_temperature, cutoff_move, decay_delay_moves, decay_moves, endgame_temperature) ==
  LET moves == CDiv(ply, 2)
  IN IF cutoff_move # 0 /\ moves >= cutoff_move
       THEN endgame_temperature
     ELSE IF initial_temperature # Zero /\ decay_moves # 0
       THEN LET decayed ==
                  IF moves >= decay_delay_moves + decay_moves THEN Zero
                  ELSE IF moves >= decay_delay_moves
                    THEN FracMul(initial_temperature,
                                 Frac(decay_delay_moves + decay_moves - moves,
                                      decay_moves))
                  ELSE initial_temperature
            IN IF FracLess(decayed, endgame_temperature)
                 THEN endgame_temperature ELSE decayed
     ELSE initial_temperature

\* A variant of EffectiveTau that lets the temperature decay below the
\* endgame temperature.
EffectiveTauUnclamped(ply, initial_temperature, cutoff_move, decay_delay_moves, decay_moves, endgame_temperature) ==
  LET moves == CDiv(ply, 2)
  IN IF cutoff_move # 0 /\ (moves + 1) >= cutoff_move
       THEN endgame_temperature
     ELSE IF initial_temperature # Zero /\ decay_moves # 0
       THEN IF moves >= decay_delay_moves + decay_moves THEN Zero
            ELSE IF moves >= decay_delay_moves
              THEN FracMul(initial_temperature,
                           Frac(decay_delay_moves + decay_moves - moves,
                                decay_moves))
            ELSE initial_temperature
     ELSE initial_temperature

EffectiveTau(ply, initial_temperature, cutoff_move, decay_delay_moves, decay_moves, endgame_temperature) ==
  LET moves == CDiv(ply, 2)
  IN IF cutoff_move # 0 /\ (moves + 1) >= cutoff_move
       THEN endgame_temperature
     ELSE IF initial_temperature # Zero /\ decay_moves # 0
       THEN LET decayed ==
                  IF moves >= decay_delay_moves + decay_moves THEN Zero
                  ELSE IF moves >= decay_delay_moves
                    THEN FracMul(initial_temperature,
                                 Frac(decay_delay_moves + decay_moves - moves,
                                      decay_moves))
                  ELSE initial_temperature
            IN IF FracLess(decayed, endgame_temperature)
                 THEN endgame_temperature ELSE decayed
     ELSE initial_temperature

(***************************************************************************)
(* Input lines                                                             *)
(***************************************************************************)
W_x == <<"x">>
W_foo == <<"f","o","o">>
W_goo == <<"g","o","o">>
W_Go == <<"G","o">>
W_e2e4 == <<"e","2","e","4">>

SeqsUpTo(S, n) == UNION {[1..k -> S] : k \in 0..n}

RECURSIVE Join(_, _)
Join(words, sep) ==
  IF words = <<>> THEN <<>>
  ELSE IF Len(words) = 1 THEN words[1]
  ELSE words[1] \o sep \o Join(Tail(words), sep)

\* A line in one of two layouts: words separated by one space, or by a tab
\* and a space with whitespace around the line.
Styles == {"plain", "padded"}

Layout(words, style) ==
  IF style = "plain" THEN Join(words, <<SP>>)
  ELSE <<SP>> \o Join(words, <<TAB, SP>>) \o <<TAB>>

\* bounds of the input families
MaxArgs == 3
MaxSetWords == 5
MaxPhraseWords == 4
MaxPosArgs == 4
MaxGoGroups == 2
MaxHistArgs == 1
MaxFieldGroups == 3
MaxSetFields == 2
MaxBatch == 2
MaxCallsPerThread == 1
MaxPly == 6
MaxTextLen == 5

KeywordCommands == {W_position, W_go}
OtherCommands == {W_uci, W_isready, W_setoption, W_ucinewgame, W_stop,
                  W_ponderhit, W_quit, W_xyzzy, W_fen, W_foo, W_goo, W_Go}
ArgWords == {W_fen, W_startpos, W_moves, W_depth, W_infinite, W_x}

\* Any command word followed by arguments: up to MaxArgs for the commands with
\* keywords, at most one for the others; and the blank lines.
GeneralWords ==
  {<<c>> \o a : c \in KeywordCommands, a \in SeqsUpTo(ArgWords, MaxArgs)}
  \cup {<<c>> \o a : c \in OtherCommands, a \in SeqsUpTo(ArgWords, 1)}
  \cup {<<>>}

GeneralLines == {Layout(w, s) : w \in GeneralWords, s \in Styles}

\* setoption lines: "name" and up to MaxSetWords words, among them the
\* keywords and a word that holds both keywords inside it; and a few lines
\* that do not start with "name".
W_contextvalue == W_context \o W_value
W_namex == W_name \o W_x
SetWords == {W_value, W_context, W_x, W_contextvalue}
BadHeads == {<<>>, <<W_namex>>, <<W_x, W_name>>, <<W_value>>}
BadHeadRests == {<<>>, <<W_x, W_value, W_x>>}

SetOptionArgs ==
  {<<W_name>> \o r : r \in SeqsUpTo(SetWords, MaxSetWords)}
  \cup {h \o r : h \in BadHeads, r \in BadHeadRests}

SetOptionLines ==
  {Layout(<<W_setoption>> \o a, s) : a \in SetOptionArgs, s \in Styles}

\* "setoption name NAME value VALUE [context CONTEXT]" written from word
\* lists, with single spaces
PhraseWords == {W_name, W_value, W_context, W_x}

RoundTripLine(n, v, c) ==
  Join(<<W_setoption, W_name>> \o n \o <<W_value>> \o v
         \o (IF c = <<>> THEN <<>> ELSE <<W_context>> \o c), <<SP>>)

\* position lines: up to MaxPosArgs words after "position"
PosWords == {W_fen, W_startpos, W_moves, W_e2e4, W_x}

PositionLines ==
  {Layout(<<W_position>> \o a, s) :
     a \in SeqsUpTo(PosWords, MaxPosArgs), s \in Styles}

\* go lines: up to MaxGoGroups groups after "go", a group being a keyword, a
\* numeric keyword with a value text, or a value text alone
T_12 == <<"1","2">>
T_minus7 == <<"-","7">>
T_12x == <<"1","2","x">>
T_max == <<"2","1","4","7","4","8","3","6","4","7">>
T_over == <<"2","1","4","7","4","8","3","6","4","8">>
T_min == <<"-","2","1","4","7","4","8","3","6","4","8">>
T_under == <<"-","2","1","4","7","4","8","3","6","4","9">>
NumTexts == {T_12, T_minus7, W_x, T_12x, T_max, T_over, T_min, T_under}

GoGroups ==
  {<<k>> : k \in {W_wtime, W_depth, W_infinite}}
  \cup {<<k, t>> : k \in {W_wtime, W_depth}, t \in NumTexts}
  \cup {<<t>> : t \in {T_12, W_x}}

RECURSIVE Flatten(_)
Flatten(groups) ==
  IF groups = <<>> THEN <<>> ELSE Head(groups) \o Flatten(Tail(groups))

GoLines ==
  {Join(<<W_go>> \o Flatten(g), <<SP>>) : g \in SeqsUpTo(GoGroups, MaxGoGroups)}

\* go lines that set fields: up to MaxFieldGroups groups after "go", a group
\* being a flag, searchmoves with or without a move, a numeric keyword with an
\* integer literal, or a word that is no keyword
GoFieldGroups ==
  {<<W_infinite>>, <<W_ponder>>, <<W_searchmoves>>, <<W_searchmoves, W_e2e4>>,
   <<W_wtime, T_12>>, <<W_depth, T_minus7>>, <<W_nodes, T_max>>,
   <<W_movetime, T_min>>, <<W_x>>}

GoFieldLines ==
  {Join(<<W_go>> \o Flatten(g), <<SP>>) :
     g \in SeqsUpTo(GoFieldGroups, MaxFieldGroups)}

\* lines processed one after another in any order: well-formed and malformed
\* ones, with up to MaxHistArgs words after the command
HistArgWords == {W_fen, W_depth, W_x}

HistLines ==
  {Join(<<c>> \o a, <<SP>>) :
     c \in {W_position, W_go, W_foo}, a \in SeqsUpTo(HistArgWords, MaxHistArgs)}
  \cup {<<>>,
        Join(<<W_setoption, W_name, W_x, W_value, W_x>>, <<SP>>),
        Join(<<W_setoption, W_name, W_x>>, <<SP>>)}

\* thinking-info records: the record with every field unset, with up to
\* MaxSetFields fields given one of these values instead
UnsetInfo ==
  [player |-> -1, game_id |-> -1, is_black |-> <<>>, depth |-> -1,
   seldepth |-> -1, time |-> -1, nodes |-> -1, mate |-> <<>>, score |-> <<>>,
   wdl |-> <<>>, moves_left |-> <<>>, hashfull |-> -1, nps |-> -1,
   tb_hits |-> -1, multipv |-> -1, pv |-> <<>>, comment |-> ""]

FieldValues ==
  [player |-> {3, -2}, game_id |-> {7, -2},
   is_black |-> {<<TRUE>>, <<FALSE>>}, depth |-> {0, 5, -2},
   seldepth |-> {9}, time |-> {0}, nodes |-> {1000}, mate |-> {<<3>>},
   score |-> {<<100>>, <<-50>>},
   wdl |-> {<<[w |-> 600, d |-> 300, l |-> 100]>>}, moves_left |-> {<<40>>},
   hashfull |-> {0}, nps |-> {25, -3}, tb_hits |-> {2}, multipv |-> {1},
   pv |-> {<<"e2e4">>, <<"O-O", "e7e5">>}, comment |-> {"hello"}]

RECURSIVE InfosWith(_)
InfosWith(n) ==
  IF n = 0 THEN {UnsetInfo}
  ELSE LET less == InfosWith(n - 1)
       IN less \cup UNION {{[i EXCEPT ![f] = v] : v \in FieldValues[f], i \in less} :
                             f \in DOMAIN FieldValues}

\* a record with every field set
FullInfo ==
  [player |-> 3, game_id |-> 7, is_black |-> <<TRUE>>, depth |-> 5,
   seldepth |-> 9, time |-> 0, nodes |-> 1000, mate |-> <<>>,
   score |-> <<100>>, wdl |-> <<[w |-> 600, d |-> 300, l |-> 100]>>,
   moves_left |-> <<40>>, hashfull |-> 0, nps |-> 25, tb_hits |-> 2,
   multipv |-> 1, pv |-> <<"O-O", "e7e5">>, comment |-> "hello"]

\* the batches given to OutputThinkingInfo: one record, or one followed by
\* FullInfo
ThinkingBatches ==
  {<<i>> : i \in InfosWith(MaxSetFields)}
  \cup {<<i, FullInfo>> : i \in InfosWith(MaxSetFields)}

\* best-move records
BestMoveInfos ==
  [bestmove : {"e2e4", "O-O"}, ponder : {NullMove, "e7e5"},
   player : {-1, 3, -2}, game_id : {-1, 7}, is_black : {<<>>, <<TRUE>>, <<FALSE>>}]

\* the arguments of a backward search: texts of up to MaxTextLen characters
\* out of two letters and the space, a keyword of one or of two letters, and
\* a minimum position within the text or at its end
FindTexts == SeqsUpTo({"a", "b", SP}, MaxTextLen)

FindInputs ==
  UNION {[text : {t}, keyword : {<<"a">>, <<"a", "b">>},
          search_start_pos : 0..Len(t)] : t \in FindTexts}

\* the arguments of EffectiveTau: plies up to MaxPly, the cutoff disabled or
\* at move 2 or 3, decay disabled or over 2 or 3 moves after a delay of 0 or 1
TauInputs ==
  [ply : 0..MaxPly,
   initial_temperature : {Zero, Frac(1, 2), Frac(1, 1)},
   cutoff_move : {0, 2, 3},
   decay_delay_moves : {0, 1},
   decay_moves : {0, 2, 3},
   endgame_temperature : {Zero, Frac(3, 10), Frac(1, 2), Frac(2, 1)}]

(***************************************************************************)
(* The command loop                                                        *)
(***************************************************************************)
\* parts of a line not written from NAME, VALUE and CONTEXT
NoParts == [name |-> <<>>, value |-> <<>>, context |-> <<>>]

\* the threads that call the formatter: the command loop's and the engine's
NumThreads == 2
Threads == 1..NumThreads

\* no formatter call made yet
NoInfo == [kind |-> "none"]

\* options_ before PopulateParams (a null pointer)
NullOptions ==
  [null |-> TRUE, UCI_Chess960 |-> FALSE, UCI_ShowWDL |-> FALSE,
   UCI_ShowMovesLeft |-> FALSE]

\* a thread that is in no formatter call; done counts the calls it has made
IdleThread == [pc |-> "idle", op |-> "none", todo |-> <<>>, k |-> 0, done |-> 0]

\* find_args and found when the search is not looked at on its own
NoFindArgs == [text |-> <<>>, keyword |-> <<>>, search_start_pos |-> 0]

NotFound == [set |-> FALSE, pos |-> npos]

\* tau_args and tau when EffectiveTau is not looked at
NoTauArgs ==
  [ply |-> 0, initial_temperature |-> Zero, cutoff_move |-> 0,
   decay_delay_moves |-> 0, decay_moves |-> 0, endgame_temperature |-> Zero]

NoTau == [set |-> FALSE, value |-> Zero]

\* first before any line has been processed
NoFirst == [set |-> FALSE, line |-> <<>>, outcome |-> <<>>, erred |-> FALSE]

Init ==
  /\ pc = "idle"
  /\ line = <<>>
  /\ command = NoCommand
  /\ error = ""
  /\ calls = <<>>
  /\ output = <<>>
  /\ result = TRUE
  /\ first = NoFirst
  /\ parts = NoParts
  /\ info = NoInfo
  /\ options_ = NullOptions
  /\ threads = [t \in Threads |-> IdleThread]
  /\ output_mutex = 0
  /\ sink = <<>>
  /\ tau_args = NoTauArgs
  /\ tau = NoTau
  /\ find_args = NoFindArgs
  /\ found = NotFound

\* The search is about to ask for the temperature, with any arguments.
InitTau ==
  /\ pc = "idle"
  /\ line = <<>>
  /\ command = NoCommand
  /\ error = ""
  /\ calls = <<>>
  /\ output = <<>>
  /\ result = TRUE
  /\ first = NoFirst
  /\ parts = NoParts
  /\ info = NoInfo
  /\ options_ = NullOptions
  /\ threads = [t \in Threads |-> IdleThread]
  /\ output_mutex = 0
  /\ sink = <<>>
  /\ tau_args \in TauInputs
  /\ tau = NoTau
  /\ find_args = NoFindArgs
  /\ found = NotFound

\* EffectiveTau is called with tau_args.
CallEffectiveTau ==
  /\ ~tau.set
  /\ tau' = [set |-> TRUE,
             value |-> EffectiveTau(tau_args.ply, tau_args.initial_temperature,
                                    tau_args.cutoff_move,
                                    tau_args.decay_delay_moves,
                                    tau_args.decay_moves,
                                    tau_args.endgame_temperature)]
  /\ UNCHANGED <<pc, line, command, error, calls, output, result, first, parts,
                 fvars, tau_args, find_args, found>>

SpecTau == InitTau /\ [][CallEffectiveTau]_vars

\* A backward search is about to be made, with any text, keyword and minimum
\* position.
InitFind ==
  /\ pc = "idle"
  /\ line = <<>>
  /\ command = NoCommand
  /\ error = ""
  /\ calls = <<>>
  /\ output = <<>>
  /\ result = TRUE
  /\ first = NoFirst
  /\ parts = NoParts
  /\ info = NoInfo
  /\ options_ = NullOptions
  /\ threads = [t \in Threads |-> IdleThread]
  /\ output_mutex = 0
  /\ sink = <<>>
  /\ tau_args = NoTauArgs
  /\ tau = NoTau
  /\ find_args \in FindInputs
  /\ found = NotFound

\* FindBoundedKeywordOccurrence is called with find_args and find_last.
CallFindLast ==
  /\ ~found.set
  /\ found' = [set |-> TRUE,
               pos |-> FindBoundedKeywordOccurrence(find_args.text,
                                                    find_args.keyword,
                                                    find_args.search_start_pos,
                                                    TRUE)]
  /\ UNCHANGED <<pc, line, command, error, calls, output, result, first, parts,
                 fvars, tau_args, tau, find_args>>

SpecFind == InitFind /\ [][CallFindLast]_vars

Process(input) ==
  \E o \in {ProcessLineOutcome(input)} :
     /\ pc' = "done"
     /\ line' = input
     /\ command' = o.command
     /\ error' = o.d.err
     /\ calls' = o.d.calls
     /\ output' = o.d.out
     /\ result' = o.d.ret

\* The loop hands one line to ProcessLine.
ProcessLine(input) ==
  /\ pc = "idle"
  /\ Process(input)
  /\ UNCHANGED <<first, parts, fvars, tvars>>

\* The loop goes on to read the next line; what was kept of the last is dropped.
NextLine ==
  /\ pc = "done"
  /\ pc' = "idle"
  /\ line' = <<>>
  /\ command' = NoCommand
  /\ error' = ""
  /\ calls' = <<>>
  /\ output' = <<>>
  /\ result' = TRUE
  /\ parts' = NoParts
  /\ UNCHANGED <<first, fvars, tvars>>

ProcessGeneralLine == pc = "idle" /\ \E l \in GeneralLines : ProcessLine(l)

Next == ProcessGeneralLine \/ NextLine

Spec == Init /\ [][Next]_vars

\* The loop fed with setoption lines.
ProcessSetOptionLine ==
  pc = "idle" /\ \E l \in SetOptionLines : ProcessLine(l)

NextSetOption == ProcessSetOptionLine \/ NextLine

SpecSetOption == Init /\ [][NextSetOption]_vars

\* The loop fed with setoption lines written from NAME, VALUE and CONTEXT (no
\* CONTEXT when c is empty), of at most MaxPhraseWords words together.
ProcessRoundTripLine ==
  pc = "idle" /\ \E w \in SeqsUpTo(PhraseWords, MaxPhraseWords) :
    \E i \in 1..(Len(w) - 1) : \E j \in (i + 1)..Len(w) :
      LET n == SubSeq(w, 1, i)
          v == SubSeq(w, i + 1, j)
          c == SubSeq(w, j + 1, Len(w))
      IN /\ pc = "idle"
         /\ Process(RoundTripLine(n, v, c))
         /\ parts' = [name |-> n, value |-> v, context |-> c]
         /\ UNCHANGED <<first, fvars, tvars>>

NextRoundTrip == ProcessRoundTripLine \/ NextLine

SpecRoundTrip == Init /\ [][NextRoundTrip]_vars

\* The loop fed with position lines.
ProcessPositionLine ==
  pc = "idle" /\ \E l \in PositionLines : ProcessLine(l)

NextPosition == ProcessPositionLine \/ NextLine

SpecPosition == Init /\ [][NextPosition]_vars

\* The loop fed with go lines.
ProcessGoLine == pc = "idle" /\ \E l \in GoLines : ProcessLine(l)

NextGo == ProcessGoLine \/ NextLine

SpecGo == Init /\ [][NextGo]_vars

\* The loop fed with go lines that set fields.
ProcessGoFieldLine == pc = "idle" /\ \E l \in GoFieldLines : ProcessLine(l)

NextGoFields == ProcessGoFieldLine \/ NextLine

SpecGoFields == Init /\ [][NextGoFields]_vars

\* StringUciResponder::PopulateParams: the three display options are added
\* with their defaults and options_ is set.
PopulateParams ==
  /\ pc = "idle"
  /\ options_.null
  /\ options_' = [null |-> FALSE, UCI_Chess960 |-> FALSE, UCI_ShowWDL |-> TRUE,
                  UCI_ShowMovesLeft |-> FALSE]
  /\ UNCHANGED <<pc, line, command, error, calls, output, result, first, parts,
                 info, threads, output_mutex, sink, tvars>>

\* The option store changes the value of one display option.
SetDisplayOption ==
  /\ pc = "idle"
  /\ ~options_.null
  /\ \E name \in {"UCI_Chess960", "UCI_ShowWDL", "UCI_ShowMovesLeft"} :
       options_' = [options_ EXCEPT ![name] = ~@]
  /\ UNCHANGED <<pc, line, command, error, calls, output, result, first, parts,
                 info, threads, output_mutex, sink, tvars>>

\* OutputThinkingInfo is called with a batch of records; pc is "done" until
\* the call has returned.
ThinkingInfoCall ==
  /\ pc = "idle"
  /\ \E b \in ThinkingBatches :
       /\ info' = [kind |-> "thinking", infos |-> b]
       /\ output' = OutputThinkingInfo(b, options_)
  /\ pc' = "done"
  /\ UNCHANGED <<line, command, error, calls, result, first, parts,
                 options_, threads, output_mutex, sink, tvars>>

\* OutputBestMove is called.
BestMoveCall ==
  /\ pc = "idle"
  /\ \E bm \in BestMoveInfos :
       /\ info' = [kind |-> "bestmove", bm |-> bm]
       /\ output' = OutputBestMove(bm, options_)
  /\ pc' = "done"
  /\ UNCHANGED <<line, command, error, calls, result, first, parts,
                 options_, threads, output_mutex, sink, tvars>>

\* The formatter call has returned; what was kept of it is dropped.
FormatterReturn ==
  /\ pc = "done"
  /\ info # NoInfo
  /\ pc' = "idle"
  /\ info' = NoInfo
  /\ output' = <<>>
  /\ UNCHANGED <<line, command, error, calls, result, first, parts,
                 options_, threads, output_mutex, sink, tvars>>

NextFormatter ==
  \/ PopulateParams
  \/ SetDisplayOption
  \/ ThinkingInfoCall
  \/ BestMoveCall
  \/ FormatterReturn

SpecFormatter == Init /\ [][NextFormatter]_vars

\* The formatter calls a thread can make, each with the line batches it hands
\* to SendRawResponses one after another: SendId makes two SendRawResponse
\* calls of one line each, OutputThinkingInfo one call with a line per record,
\* OutputBestMove one call of one line.
FormatterCalls ==
  {[op |-> "SendId", batches |-> << <<"id name">>, <<"id author">> >>],
   [op |-> "OutputBestMove", batches |-> << <<"bestmove">> >>]}
  \cup {[op |-> "OutputThinkingInfo", batches |-> <<[k \in 1..n |-> "info"]>>] :
          n \in 1..MaxBatch}

\* Thread t enters a formatter call.
BeginCall(t) ==
  /\ threads[t].pc = "idle"
  /\ threads[t].done < MaxCallsPerThread
  /\ \E c \in FormatterCalls :
       threads' = [threads EXCEPT ![t] =
                     [pc |-> "lock", op |-> c.op, todo |-> c.batches, k |-> 0,
                      done |-> @.done]]
  /\ UNCHANGED <<pc, line, command, error, calls, output, result, first, parts,
                 info, options_, output_mutex, sink, tvars>>

\* A variant of Acquire that does not wait for the mutex.
AcquireUnguarded(t) ==
  /\ threads[t].pc = "lock"
  /\ output_mutex' = t
  /\ threads' = [threads EXCEPT ![t].pc = "write", ![t].k = 1]
  /\ UNCHANGED <<pc, line, command, error, calls, output, result, first, parts,
                 info, options_, sink, tvars>>

\* SendRawResponses: std::lock_guard<std::mutex> lock(output_mutex);
Acquire(t) ==
  /\ threads[t].pc = "lock"
  /\ output_mutex = 0
  /\ output_mutex' = t
  /\ threads' = [threads EXCEPT ![t].pc = "write", ![t].k = 1]
  /\ UNCHANGED <<pc, line, command, error, calls, output, result, first, parts,
                 info, options_, sink, tvars>>

\* SendRawResponses: std::cout << response << std::endl; for the next response
Write(t) ==
  /\ threads[t].pc = "write"
  /\ threads[t].k <= Len(Head(threads[t].todo))
  /\ sink' = Append(sink, [thread |-> t, op |-> threads[t].op,
                           call |-> threads[t].done + 1,
                           left |-> Len(threads[t].todo),
                           k |-> threads[t].k,
                           text |-> Head(threads[t].todo)[threads[t].k]])
  /\ threads' = [threads EXCEPT ![t].k = @ + 1]
  /\ UNCHANGED <<pc, line, command, error, calls, output, result, first, parts,
                 info, options_, output_mutex, tvars>>

\* SendRawResponses returns: the lock_guard releases the mutex; the formatter
\* call goes on to its next SendRawResponses call, or returns.
Release(t) ==
  /\ threads[t].pc = "write"
  /\ threads[t].k > Len(Head(threads[t].todo))
  /\ output_mutex' = 0
  /\ threads' = [threads EXCEPT ![t] =
                   IF Len(@.todo) > 1
                     THEN [@ EXCEPT !.pc = "lock", !.todo = Tail(@), !.k = 0]
                     ELSE [IdleThread EXCEPT !.done = threads[t].done + 1]]
  /\ UNCHANGED <<pc, line, command, error, calls, output, result, first, parts,
                 info, options_, sink, tvars>>

NextConcurrent ==
  \E t \in Threads : BeginCall(t) \/ Acquire(t) \/ Write(t) \/ Release(t)

SpecConcurrent == Init /\ [][NextConcurrent]_vars

\* ProcessLine(l) dispatches isready
DispatchesIsReady(l) ==
  LET o == ProcessLineOutcome(l)
  IN o.command.ok /\ o.command.name = W_isready /\ o.d.err = ""

\* A variant of IsReadyEnter that sends the response before EnsureReady is
\* called.
IsReadyEnterAcksFirst(l) ==
  /\ pc = "idle"
  /\ DispatchesIsReady(l)
  /\ \E o \in {ProcessLineOutcome(l)} :
       /\ pc' = "EnsureReady"
       /\ line' = l
       /\ command' = o.command
       /\ calls' = o.d.calls
       /\ output' = o.d.out
  /\ UNCHANGED <<error, result, first, parts, fvars, tvars>>

\* The isready branch up to its call of engine_->EnsureReady(), which blocks
\* until the engine is ready; pc is "EnsureReady" while it does.
IsReadyEnter(l) ==
  /\ pc = "idle"
  /\ DispatchesIsReady(l)
  /\ \E o \in {ProcessLineOutcome(l)} :
       /\ pc' = "EnsureReady"
       /\ line' = l
       /\ command' = o.command
       /\ calls' = o.d.calls
       /\ output' = <<>>
  /\ UNCHANGED <<error, result, first, parts, fvars, tvars>>

\* The engine is ready: EnsureReady returns.
EnsureReadyReturns ==
  /\ pc = "EnsureReady"
  /\ pc' = "readyok"
  /\ UNCHANGED <<line, command, error, calls, output, result, first, parts,
                 fvars, tvars>>

\* The isready branch after EnsureReady: SendRawResponse("readyok"), and
\* DispatchCommand returns true.
SendReadyok ==
  /\ pc = "readyok"
  /\ \E o \in {ProcessLineOutcome(line)} :
       /\ output' = output \o o.d.out
       /\ result' = o.d.ret
  /\ pc' = "done"
  /\ UNCHANGED <<line, command, error, calls, first, parts, fvars, tvars>>

\* The loop fed with any line, the isready branch taken step by step.
ProcessIsReadyLine == \E l \in GeneralLines : IsReadyEnter(l)

ProcessOtherLine ==
  pc = "idle" /\ \E l \in GeneralLines : ~DispatchesIsReady(l) /\ ProcessLine(l)

NextIsReady ==
  \/ ProcessIsReadyLine
  \/ EnsureReadyReturns
  \/ SendReadyok
  \/ ProcessOtherLine
  \/ NextLine

SpecIsReady == Init /\ [][NextIsReady]_vars

\* ProcessLine called line after line with nothing reset in between; first
\* keeps the first line with what processing it gave, and whether a later,
\* different line raised an error.
ProcessLineAfterAny ==
  \E l \in HistLines :
    /\ Process(l)
    /\ first' = IF ~first.set
                  THEN [set |-> TRUE, line |-> l,
                        outcome |-> <<command', error', calls'>>,
                        erred |-> FALSE]
                  ELSE [first EXCEPT
                          !.erred = @ \/ (error' # "" /\ l # first.line)]
    /\ UNCHANGED <<parts, fvars, tvars>>

SpecHistory == Init /\ [][ProcessLineAfterAny]_vars

(***************************************************************************)
(* The words of a line, read off the text                                  *)
(***************************************************************************)
\* where a maximal run of non-whitespace characters starts (1-based)
WordStarts(l) ==
  {i \in 1..Len(l) : ~IsSpace(l[i]) /\ (i = 1 \/ IsSpace(l[i - 1]))}

WordEnd(l, i) == Min({j \in i..Len(l) : j = Len(l) \/ IsSpace(l[j + 1])})

\* the whitespace-delimited words of l, left to right
Words(l) ==
  LET st == WordStarts(l)
  IN [k \in 1..Cardinality(st) |->
        LET i == CHOOSE x \in st : Cardinality({t \in st : t < x}) = k - 1
        IN SubSeq(l, i, WordEnd(l, i))]

\* the words after the command name
ArgsOf(l) == Tail(Words(l))

\* the words that follow the last occurrence of keyword k, up to the next
\* keyword of kws
ValueTokens(toks, kws, k) ==
  LET last == Max({i \in 1..Len(toks) : toks[i] = k})
      nxt == Min({j \in (last + 1)..(Len(toks) + 1) :
                    j = Len(toks) + 1 \/ toks[j] \in kws})
  IN SubSeq(toks, last + 1, nxt - 1)

\* the keyword-to-value mapping the words stand for
ExpectedParams(toks, kws) ==
  [k \in {toks[i] : i \in 1..Len(toks)} \cap kws |->
     Join(ValueTokens(toks, kws, k), <<SP>>)]

Occurrences(toks, k) == Cardinality({i \in 1..Len(toks) : toks[i] = k})

(***************************************************************************)
(* Properties                                                              *)
(***************************************************************************)
\* C1: a line on which ProcessLine raises an error has had no engine-controller
\* operation and no SetUciOption invoked for it; a line makes at most one such
\* call, after its validation.
C1_ErrorsApplyNothing ==
  /\ error # "" => calls = <<>>
  /\ Len(calls) <= 1

\* C1 witness: a go line whose infinite flag was accepted and whose depth value
\* then failed the numeric conversion.
C1_Witness ==
  /\ pc = "done"
  /\ error = "InvalidValue"
  /\ command.ok
  /\ W_infinite \in DOMAIN command.params
  /\ W_depth \in DOMAIN command.params

\* C2: a line whose first word is no command name of the registry fails with
\* "Unknown command"; nothing is dispatched and nothing is sent.
C2_UnknownCommandNoDispatch ==
  (pc = "done" /\ Words(line) # <<>>
     /\ Words(line)[1] \notin DOMAIN kKnownCommands)
  => /\ ~command.ok
     /\ command.err = "UnknownCommand"
     /\ error = "UnknownCommand"
     /\ calls = <<>>
     /\ output = <<>>

\* C2 witness: the unknown command "goo" (a known name plus a letter) with an
\* argument.
C2_Witness ==
  /\ pc = "done"
  /\ Len(Words(line)) = 2
  /\ Words(line)[1] = W_goo
  /\ error = "UnknownCommand"

\* C7: for a command other than setoption the words after the command name are
\* scanned left to right: a first word that is no keyword fails the line with
\* "Unexpected token"; otherwise the mapping holds exactly the keywords that
\* occur, each with the words after its last occurrence up to the next keyword,
\* joined by one space.
C7_KeywordScan ==
  (pc = "done" /\ Words(line) # <<>>
     /\ Words(line)[1] \in DOMAIN kKnownCommands \ {W_setoption})
  => LET toks == ArgsOf(line)
         kws == kKnownCommands[Words(line)[1]]
     IN IF toks # <<>> /\ toks[1] \notin kws
          THEN ~command.ok /\ command.err = "UnexpectedToken"
               /\ error = "UnexpectedToken"
          ELSE /\ command.ok
               /\ command.name = Words(line)[1]
               /\ command.params = ExpectedParams(toks, kws)

\* C7 witness: a keyword given twice, with words after its first occurrence,
\* in a line laid out with tabs.
C7_Witness ==
  /\ pc = "done"
  /\ command.ok
  /\ TAB \in {line[i] : i \in 1..Len(line)}
  /\ \E k \in DOMAIN command.params :
       /\ Occurrences(ArgsOf(line), k) = 2
       /\ ArgsOf(line)[1] = k
       /\ ArgsOf(line)[2] = W_x
       /\ command.params[k] = <<>>

(***************************************************************************)
(* The option-setting grammar, read off the text                           *)
(***************************************************************************)
\* the text from its first to its last non-whitespace character
Stripped(s) ==
  LET st == WordStarts(s)
  IN IF st = {} THEN <<>>
     ELSE SubSeq(s, Min(st), WordEnd(s, Max(st)))

\* the text after the command name
ArgTextOf(l) ==
  LET b == Min(WordStarts(l))
  IN Stripped(SubSeq(l, WordEnd(l, b) + 1, Len(l)))

\* kw stands at 0-based position p of text as a word of its own
BoundedAt(text, kw, p) ==
  /\ p + Len(kw) <= Len(text)
  /\ SubSeq(text, p + 1, p + Len(kw)) = kw
  /\ (p = 0 \/ IsSpace(text[p]))
  /\ (p + Len(kw) = Len(text) \/ IsSpace(text[p + Len(kw) + 1]))

\* The split of the argument text a: at the first bounded "value" after
\* "name", and at the last bounded "context" after that "value".
SetOptionSplit(a) ==
  IF ~(Len(a) > Len(W_name) /\ SubSeq(a, 1, Len(W_name)) = W_name
         /\ IsSpace(a[Len(W_name) + 1]))
    THEN [case |-> "no name"]
  ELSE
    LET V == {p \in Len(W_name)..Len(a) : BoundedAt(a, W_value, p)} IN
    IF V = {} THEN [case |-> "no value"]
    ELSE
      LET v == Min(V)
          afterValue == v + Len(W_value)
          Cx == {p \in afterValue..Len(a) : BoundedAt(a, W_context, p)}
          c == IF Cx = {} THEN Len(a) ELSE Max(Cx)
      IN [case |-> "split",
          name |-> Stripped(SubSeq(a, Len(W_name) + 1, v)),
          value |-> Stripped(SubSeq(a, afterValue + 1, c)),
          hasContext |-> Cx # {},
          context |-> IF Cx = {} THEN <<>>
                      ELSE Stripped(SubSeq(a, c + Len(W_context) + 1, Len(a)))]

IsSetOptionLine(l) == Words(l) # <<>> /\ Words(l)[1] = W_setoption

SetterCall(n, v, c) ==
  [op |-> "SetUciOption", name |-> n, value |-> v, context |-> c]

\* C4: when a setoption line whose arguments begin with "name" is parsed, the
\* name is the trimmed text before the first whitespace-bounded "value", the
\* value the trimmed text between it and the last whitespace-bounded "context"
\* after it (the whole remainder, with no context, when there is none), the
\* context the trimmed text after that; "value" or "context" inside a longer
\* token is no keyword.
C4_FirstValueLastContext ==
  (pc = "done" /\ IsSetOptionLine(line) /\ error = "")
  => LET sp == SetOptionSplit(ArgTextOf(line))
     IN /\ sp.case = "split"
        /\ calls = <<SetterCall(sp.name, sp.value, sp.context)>>
        /\ sp.hasContext <=> calls[1].context # <<>>

\* C4 witness: a name that holds both keywords inside one token, a value that
\* is the word "context", and a context after the last "context".
C4_Witness ==
  /\ pc = "done"
  /\ error = ""
  /\ Len(calls) = 1
  /\ calls[1].op = "SetUciOption"
  /\ calls[1].name = W_contextvalue
  /\ calls[1].value = W_context
  /\ calls[1].context = W_x

\* C6: a setoption line fails, and the setter is not invoked, when its
\* arguments do not begin with "name" and whitespace, when no bounded "value"
\* follows, when the name or the value is empty after trimming, or when a
\* bounded "context" is followed by nothing; in every other case the setter
\* is invoked exactly once with the name, the value and the context (empty
\* without a context).
C6_SetOptionErrors ==
  (pc = "done" /\ IsSetOptionLine(line))
  => LET sp == SetOptionSplit(ArgTextOf(line))
     IN IF sp.case = "no name"
          THEN error = "MalformedSetoptionExpectedName" /\ calls = <<>>
        ELSE IF sp.case = "no value"
          THEN error = "MalformedSetoptionMissingValue" /\ calls = <<>>
        ELSE IF sp.name = <<>>
          THEN error = "EmptyOptionName" /\ calls = <<>>
        ELSE IF sp.hasContext /\ sp.context = <<>>
          THEN error = "EmptyContext" /\ calls = <<>>
        ELSE IF sp.value = <<>>
          THEN error = "EmptyOptionValue" /\ calls = <<>>
        ELSE error = ""
             /\ calls = <<SetterCall(sp.name, sp.value, sp.context)>>

\* C6 witness: a line with a name and a value whose trailing "context" keyword
\* has no text after it.
C6_Witness ==
  /\ pc = "done"
  /\ IsSetOptionLine(line)
  /\ error = "EmptyContext"
  /\ SetOptionSplit(ArgTextOf(line)).value # <<>>

WordsIn(ws) == {ws[i] : i \in 1..Len(ws)}

\* the setter call that gives back the NAME, VALUE and CONTEXT a line was
\* written from
RoundTripHolds ==
  /\ error = ""
  /\ calls = <<SetterCall(Join(parts.name, <<SP>>), Join(parts.value, <<SP>>),
                          Join(parts.context, <<SP>>))>>

\* C5 as stated: every NAME, VALUE and CONTEXT of single-space-separated words,
\* the words "name", "value" and "context" among them, comes back from
\* "setoption name NAME value VALUE [context CONTEXT]".
C5_RoundTripAnyWords ==
  (pc = "done" /\ parts # NoParts) => RoundTripHolds

\* C5 as amended: NAME, VALUE and CONTEXT come back when NAME does not hold the
\* word "value" and the last part of the line (CONTEXT, or VALUE when there is
\* no CONTEXT) does not hold the word "context".
C5_RoundTrip ==
  (/\ pc = "done"
   /\ parts # NoParts
   /\ W_value \notin WordsIn(parts.name)
   /\ W_context \notin WordsIn(IF parts.context = <<>> THEN parts.value
                               ELSE parts.context))
  => RoundTripHolds

\* C5 witness: the name is the word "context", the value holds the words
\* "context" and "value", the context is the word "name".
C5_Witness ==
  /\ pc = "done"
  /\ parts # NoParts
  /\ parts.name = <<W_context>>
  /\ parts.value = <<W_context, W_value>>
  /\ parts.context = <<W_name>>
  /\ RoundTripHolds

(***************************************************************************)
(* Parsing after other lines                                               *)
(***************************************************************************)
\* C3: whatever lines were processed before, well-formed or not, a line gives
\* the same parsed command (name and keyword-to-value mapping, or failure) and
\* the same parsed option as when it is the first line processed.
C3_NoHiddenParserState ==
  (first.set /\ line = first.line) => <<command, error, calls>> = first.outcome

\* C3 witness: the first line, a well-formed one with a parameter, is processed
\* again after a different line has raised an error.
C3_Witness ==
  /\ first.set
  /\ first.erred
  /\ line = first.line
  /\ error = ""
  /\ command.ok
  /\ DOMAIN command.params # {}
  /\ calls # <<>>

(***************************************************************************)
(* position                                                                *)
(***************************************************************************)
PositionKeywords == {W_fen, W_startpos, W_moves}

IsPositionLine(l) == Words(l) # <<>> /\ Words(l)[1] = W_position

\* the words after the command start with a keyword (or there are none)
StartsWithKeyword(toks, kws) == toks = <<>> \/ toks[1] \in kws

\* C8: a position line invokes SetPosition if and only if it parses and
\* exactly one of the keywords fen and startpos is present; with both or
\* neither (also with moves alone) it fails and SetPosition is not invoked.
C8_FenXorStartpos ==
  (pc = "done" /\ IsPositionLine(line))
  => LET toks == ArgsOf(line)
         parsed == StartsWithKeyword(toks, PositionKeywords)
         hasFen == W_fen \in WordsIn(toks)
         hasStartpos == W_startpos \in WordsIn(toks)
     IN IF parsed /\ (hasFen # hasStartpos)
          THEN error = "" /\ Len(calls) = 1 /\ calls[1].op = "SetPosition"
          ELSE /\ calls = <<>>
               /\ error = IF parsed THEN "PositionRequiresFenOrStartpos"
                          ELSE "UnexpectedToken"

\* C8 witness: fen, startpos and moves all present; the line fails.
C8_Witness ==
  /\ pc = "done"
  /\ error = "PositionRequiresFenOrStartpos"
  /\ command.ok
  /\ {W_fen, W_startpos, W_moves} \subseteq DOMAIN command.params

\* C9: a valid position line invokes SetPosition exactly once, with the fen
\* value (its words joined by single spaces) when it is not empty and the
\* standard starting position otherwise, and with the words of the moves value
\* in their order (none without the moves keyword).
C9_SetPositionArguments ==
  (pc = "done" /\ IsPositionLine(line) /\ error = "")
  => LET toks == ArgsOf(line)
         fenWords == IF W_fen \in WordsIn(toks)
                       THEN ValueTokens(toks, PositionKeywords, W_fen)
                       ELSE <<>>
         moveWords == IF W_moves \in WordsIn(toks)
                        THEN ValueTokens(toks, PositionKeywords, W_moves)
                        ELSE <<>>
     IN calls = <<[op |-> "SetPosition",
                   fen |-> IF fenWords = <<>> THEN kStartposFen
                           ELSE Join(fenWords, <<SP>>),
                   moves |-> moveWords]>>

\* C9 witness: a fen value and a move, in a line laid out with tabs.
C9_Witness ==
  /\ pc = "done"
  /\ IsPositionLine(line)
  /\ TAB \in {line[i] : i \in 1..Len(line)}
  /\ Len(calls) = 1
  /\ calls[1].fen = W_x
  /\ calls[1].moves = <<W_e2e4>>

(***************************************************************************)
(* go: numeric values                                                      *)
(***************************************************************************)
IsGoLine(l) == Words(l) # <<>> /\ Words(l)[1] = W_go

SignLen(s) == IF s # <<>> /\ s[1] \in {"+", "-"} THEN 1 ELSE 0

\* how many decimal digits follow the optional sign
DigitCount(s) ==
  Max({k \in 0..(Len(s) - SignLen(s)) :
         \A i \in 1..k : s[SignLen(s) + i] \in DOMAIN DigitVal})

\* the digits without leading zeros
Significant(s) ==
  LET ds == SubSeq(s, SignLen(s) + 1, SignLen(s) + DigitCount(s))
      nz == {i \in 1..Len(ds) : ds[i] # "0"}
  IN IF nz = {} THEN <<>> ELSE SubSeq(ds, Min(nz), Len(ds))

\* digit strings of one length, compared as numbers
DigitsLeq(a, b) ==
  \/ a = b
  \/ \E i \in 1..Len(a) : /\ \A j \in 1..(i - 1) : a[j] = b[j]
                          /\ DigitVal[a[i]] < DigitVal[b[i]]

\* the leading literal of s is a 32-bit int
FitsInt(s) ==
  LET sig == Significant(s)
      limit == IF s[1] = "-" THEN Tail(T_min) ELSE T_max
  IN Len(sig) < Len(limit) \/ (Len(sig) = Len(limit) /\ DigitsLeq(sig, limit))

\* s is a signed integer literal and nothing else
IsIntegerLiteral(s) ==
  DigitCount(s) >= 1 /\ SignLen(s) + DigitCount(s) = Len(s)

\* the error a numeric value text gives ("" for none)
NumericError(s) ==
  IF s = <<>> THEN "ExpectedValueAfter"
  ELSE IF DigitCount(s) = 0 THEN "InvalidValue"
  ELSE IF ~FitsInt(s) THEN "OutOfRange"
  ELSE ""

\* C10: Go is invoked only when every numeric keyword present has a value text
\* that is a signed integer literal within the int range.
C10_OnlyIntegerLiterals ==
  (pc = "done" /\ IsGoLine(line) /\ calls # <<>>)
  => LET P == ExpectedParams(ArgsOf(line), GoKeywords)
     IN \A i \in 1..Len(GoNumericKeys) :
          GoNumericKeys[i] \in DOMAIN P
          => IsIntegerLiteral(P[GoNumericKeys[i]]) /\ FitsInt(P[GoNumericKeys[i]])

\* C10, what the conversion does: a numeric value is accepted when its text
\* starts with a signed integer literal within the int range, whatever follows
\* the digits. For a go line that parses and whose flags have no argument: when every
\* numeric keyword present has such a value, Go is invoked once; otherwise Go
\* is not invoked and the error is that of the first failing keyword in the
\* order wtime .. movetime: "expected value" for an empty text, "invalid
\* value" for a text with no leading literal, "out of range" for a leading
\* literal that is no int.
C10_NumericValues ==
  (pc = "done" /\ IsGoLine(line) /\ StartsWithKeyword(ArgsOf(line), GoKeywords))
  => LET P == ExpectedParams(ArgsOf(line), GoKeywords)
         flagsBare == \A f \in {W_infinite, W_ponder} \cap DOMAIN P : P[f] = <<>>
         bad == {i \in 1..Len(GoNumericKeys) :
                   /\ GoNumericKeys[i] \in DOMAIN P
                   /\ NumericError(P[GoNumericKeys[i]]) # ""}
     IN flagsBare
        => IF bad = {}
             THEN error = "" /\ Len(calls) = 1 /\ calls[1].op = "Go"
             ELSE /\ calls = <<>>
                  /\ error = NumericError(P[GoNumericKeys[Min(bad)]])

\* C10 witness: the value text of depth is "12x", no integer literal; Go is
\* invoked with depth 12.
C10_Witness ==
  /\ pc = "done"
  /\ IsGoLine(line)
  /\ error = ""
  /\ command.ok
  /\ W_depth \in DOMAIN command.params
  /\ command.params[W_depth] = T_12x
  /\ Len(calls) = 1
  /\ calls[1].op = "Go"
  /\ calls[1].go["depth"] = 12

(***************************************************************************)
(* go: the request                                                         *)
(***************************************************************************)
\* the integers the literals of the go lines stand for
IntOf ==
  (T_12 :> 12) @@ (T_minus7 :> -7) @@ (T_max :> 2147483647)
  @@ (T_min :> -2147483647 - 1)

\* the numeric keywords among the keys of P
NumericPresent(P) ==
  {GoNumericKeys[i] : i \in 1..Len(GoNumericKeys)} \cap DOMAIN P

\* the flags of P have no value
FlagsBare(P) == \A f \in {W_infinite, W_ponder} \cap DOMAIN P : P[f] = <<>>

\* C11: the Go request of a valid go line has a field set if and only if its
\* keyword is in the line: numeric fields of absent keywords are unset,
\* infinite and ponder are true only with their keyword, the search-move list
\* is set only with searchmoves, and each numeric field present holds the
\* integer given in the line; Go is invoked exactly once with this request.
C11_GoRequestFields ==
  (/\ pc = "done"
   /\ IsGoLine(line)
   /\ StartsWithKeyword(ArgsOf(line), GoKeywords)
   /\ FlagsBare(ExpectedParams(ArgsOf(line), GoKeywords))
   /\ \A k \in NumericPresent(ExpectedParams(ArgsOf(line), GoKeywords)) :
        LET v == ExpectedParams(ArgsOf(line), GoKeywords)[k]
        IN IsIntegerLiteral(v) /\ FitsInt(v))
  => LET toks == ArgsOf(line)
         P == ExpectedParams(toks, GoKeywords)
         request ==
           [f \in {"infinite", "ponder", "searchmoves"}
                  \cup {GoFieldName[k] : k \in NumericPresent(P)} |->
              IF f = "infinite" THEN W_infinite \in DOMAIN P
              ELSE IF f = "ponder" THEN W_ponder \in DOMAIN P
              ELSE IF f = "searchmoves"
                THEN IF W_searchmoves \in DOMAIN P
                       THEN ValueTokens(toks, GoKeywords, W_searchmoves)
                       ELSE <<>>
              ELSE IntOf[P[CHOOSE k \in NumericPresent(P) : GoFieldName[k] = f]]]
     IN error = "" /\ calls = <<[op |-> "Go", go |-> request]>>

\* C11 witness: a line with ponder, a search move and nodes at INT_MAX, and
\* without infinite and depth.
C11_Witness ==
  /\ pc = "done"
  /\ IsGoLine(line)
  /\ error = ""
  /\ Len(calls) = 1
  /\ calls[1].op = "Go"
  /\ calls[1].go["ponder"]
  /\ ~calls[1].go["infinite"]
  /\ calls[1].go["searchmoves"] = <<W_e2e4>>
  /\ "nodes" \in DOMAIN calls[1].go
  /\ calls[1].go["nodes"] = 2147483647
  /\ "depth" \notin DOMAIN calls[1].go

\* C12: a go line in which the value accumulated for infinite or for ponder is
\* not empty (the keyword is followed by a word that is no keyword) fails with
\* the dispatcher's "Unexpected token" error and Go is not invoked.
C12_FlagWithArgument ==
  (/\ pc = "done"
   /\ IsGoLine(line)
   /\ StartsWithKeyword(ArgsOf(line), GoKeywords)
   /\ ~FlagsBare(ExpectedParams(ArgsOf(line), GoKeywords)))
  => error = "UnexpectedTokenAfterFlag" /\ calls = <<>>

\* C12 witness: ponder is followed by a word, after a well-formed wtime.
C12_Witness ==
  /\ pc = "done"
  /\ error = "UnexpectedTokenAfterFlag"
  /\ command.ok
  /\ W_wtime \in DOMAIN command.params
  /\ W_ponder \in DOMAIN command.params
  /\ command.params[W_ponder] = W_x
  /\ calls = <<>>

(***************************************************************************)
(* The return value of ProcessLine                                         *)
(***************************************************************************)
\* C13: ProcessLine returns false exactly when the parsed command is quit; for
\* every other line processed without error it returns true, blank and
\* all-whitespace lines included, which cause no dispatch and no output.
\* Processing quit invokes no engine operation and raises no error.
C13_QuitAloneTerminates ==
  pc = "done"
  => /\ Words(line) = <<W_quit>>
          => error = "" /\ result = FALSE /\ calls = <<>>
     /\ (error = "" /\ Words(line) # <<W_quit>>) => result = TRUE
     /\ Words(line) = <<>>
          => error = "" /\ result = TRUE /\ calls = <<>> /\ output = <<>>

\* C13 witness: a quit line with whitespace around the word has been processed
\* and ProcessLine returned false.
C13_Witness ==
  /\ pc = "done"
  /\ Words(line) = <<W_quit>>
  /\ line # W_quit
  /\ result = FALSE
  /\ error = ""

(***************************************************************************)
(* The registry and the dispatcher                                         *)
(***************************************************************************)
\* C14: every key of the command registry has a handler in the dispatcher, so
\* DispatchCommand reached through ProcessLine never raises its own "Unknown
\* command" error.
C14_DispatchKnowsEveryKey == error # "UnknownCommandInDispatch"

\* C14, what the dispatcher does: its "Unknown command" error is raised for
\* the registry key fen, and for no other command.
C14_OnlyFenUnhandled ==
  error = "UnknownCommandInDispatch" => (command.ok /\ command.name = W_fen)

\* C14 witness: the line "fen" has passed the registry lookup and the
\* dispatcher has raised "Unknown command" for it.
C14_Witness ==
  /\ pc = "done"
  /\ Words(line) = <<W_fen>>
  /\ W_fen \in DOMAIN kKnownCommands
  /\ command.ok
  /\ command.name = W_fen
  /\ error = "UnknownCommandInDispatch"
  /\ calls = <<>>

(***************************************************************************)
(* uci                                                                     *)
(***************************************************************************)
\* C20: processing a uci line emits the identification lines, then one line
\* per option of the option store in the store's order, then "uciok" as the
\* last line; it invokes no engine operation and no option setter.
C20_UciResponse ==
  (pc = "done" /\ Words(line) = <<W_uci>>)
  => /\ error = ""
     /\ calls = <<>>
     /\ Len(output) = 2 + Len(ListOptionsUci) + 1
     /\ output[1][1] = "id name Lc0 v"
     /\ output[2][1] = "id author The LCZero Authors."
     /\ \A i \in 1..Len(ListOptionsUci) : output[2 + i] = ListOptionsUci[i]
     /\ output[Len(output)] = <<"uciok">>

\* C20 witness: a uci line with whitespace around the word has been answered
\* with six lines, the last of them "uciok".
C20_Witness ==
  /\ pc = "done"
  /\ Words(line) = <<W_uci>>
  /\ line # W_uci
  /\ Len(output) = 6
  /\ output[6] = <<"uciok">>
  /\ output[3] = <<"option name UCI_Chess960">>

(***************************************************************************)
(* The response formatter                                                  *)
(***************************************************************************)
\* the word w is in the line l
Has(l, w) == \E j \in 1..Len(l) : l[j] = w

\* where the word w is in the line l (0: nowhere)
PositionOf(l, w) == IF Has(l, w) THEN Min({j \in 1..Len(l) : l[j] = w}) ELSE 0

IsThinkingCall == pc = "done" /\ info.kind = "thinking"
IsBestMoveCall == pc = "done" /\ info.kind = "bestmove"

ShowWDL == ~options_.null /\ options_.UCI_ShowWDL
ShowMovesLeft == ~options_.null /\ options_.UCI_ShowMovesLeft

NonNegative(x) == x >= 0
NotMinusOne(x) == x # -1

\* the fields of the thinking-info line l are those of the record i that are
\* set, player and gameid counting as set when IdSet says so
ThinkingFields(l, i, IdSet(_)) ==
  /\ Has(l, "player") <=> IdSet(i.player)
  /\ Has(l, "gameid") <=> IdSet(i.game_id)
  /\ Has(l, "side") <=> i.is_black # <<>>
  /\ Has(l, "depth") <=> i.depth >= 0
  /\ Has(l, "seldepth") <=> i.seldepth >= 0
  /\ Has(l, "time") <=> i.time >= 0
  /\ Has(l, "nodes") <=> i.nodes >= 0
  /\ Has(l, "score") <=> (i.mate # <<>> \/ i.score # <<>>)
  /\ Has(l, "wdl") <=> (i.wdl # <<>> /\ ShowWDL)
  /\ Has(l, "movesleft") <=> (i.moves_left # <<>> /\ ShowMovesLeft)
  /\ Has(l, "hashfull") <=> i.hashfull >= 0
  /\ Has(l, "nps") <=> i.nps >= 0
  /\ Has(l, "tbhits") <=> i.tb_hits >= 0
  /\ Has(l, "multipv") <=> i.multipv >= 0
  /\ Has(l, "pv") <=> i.pv # <<>>
  /\ Has(l, "string") <=> i.comment # ""

\* the same for the best-move line l of the record bm
BestMoveFields(l, bm, IdSet(_)) ==
  /\ Has(l, "ponder") <=> bm.ponder # NullMove
  /\ Has(l, "player") <=> IdSet(bm.player)
  /\ Has(l, "gameid") <=> IdSet(bm.game_id)
  /\ Has(l, "side") <=> bm.is_black # <<>>

\* every line of the last formatter call has the fields of its record
FieldsOfLastCall(IdSet(_)) ==
  /\ IsThinkingCall
       => /\ Len(output) = Len(info.infos)
          /\ \A k \in 1..Len(output) :
               ThinkingFields(output[k], info.infos[k], IdSet)
  /\ IsBestMoveCall
       => Len(output) = 1 /\ BestMoveFields(output[1], info.bm, IdSet)

\* C17: in a thinking-info line and in a best-move line a numeric field whose
\* value is negative (player and gameid among them) is omitted, an optional
\* field that is absent or empty is omitted, and every other field is
\* included, wdl and movesleft only when their display option is enabled.
C17_NegativeMeansUnset == FieldsOfLastCall(NonNegative)

\* C17, what the formatter does: as stated, except that player and gameid are
\* omitted for the value -1 only and included for every other value.
C17_MinusOneMeansUnset == FieldsOfLastCall(NotMinusOne)

\* C17 witness: a thinking-info record with player -2 has been formatted, and
\* its line has the field "player -2".
C17_Witness ==
  /\ IsThinkingCall
  /\ info.infos[1].player = -2
  /\ Has(output[1], "player")
  /\ output[1][PositionOf(output[1], "player") + 1] = "-2"

\* how many times the word w is in the line l
Count(l, w) == Cardinality({j \in 1..Len(l) : l[j] = w})

\* C18: every thinking-info line has at most one score field: with a mate
\* distance in the record the line has "score mate N" and no "score cp", and
\* "score cp" is emitted only without a mate distance.
C18_AtMostOneScore ==
  IsThinkingCall
  => \A k \in 1..Len(output) :
       /\ Count(output[k], "score") <= 1
       /\ info.infos[k].mate # <<>>
            => Has(output[k], "mate") /\ ~Has(output[k], "cp")
       /\ Has(output[k], "cp") => info.infos[k].mate = <<>>

\* C18, what the formatter does: "score mate N" is in the line exactly when
\* the record has a mate distance, "score cp N" exactly when it has a score,
\* each whatever the other is.
C18_ScoreFieldsIndependent ==
  IsThinkingCall
  => \A k \in 1..Len(output) :
       /\ Has(output[k], "mate") <=> info.infos[k].mate # <<>>
       /\ Has(output[k], "cp") <=> info.infos[k].score # <<>>
       /\ Count(output[k], "score")
            = Count(output[k], "mate") + Count(output[k], "cp")

\* C18 witness: a record with a mate distance and a score has been formatted;
\* its line has "score mate 3" followed by "score cp 100".
C18_Witness ==
  /\ IsThinkingCall
  /\ info.infos[1].mate = <<3>>
  /\ info.infos[1].score = <<100>>
  /\ output[1] = <<"info", "score", "mate", "3", "score", "cp", "100">>

\* the optional fields of a best-move line, in their order
BestMoveOptionalFields == <<"ponder", "player", "gameid", "side">>

\* C19: OutputBestMove emits exactly one line; it starts with the chosen move,
\* and the optional fields that are in it come in the order ponder, player,
\* gameid, side, whichever of them are present.
C19_BestMoveFieldOrder ==
  IsBestMoveCall
  => /\ Len(output) = 1
     /\ output[1][1] = "bestmove"
     /\ output[1][2] = MoveToString(info.bm.bestmove, IsChess960(options_))
     /\ \A a \in 1..4 : Count(output[1], BestMoveOptionalFields[a]) <= 1
     /\ \A a \in 1..4 : \A b \in (a + 1)..4 :
          (/\ Has(output[1], BestMoveOptionalFields[a])
           /\ Has(output[1], BestMoveOptionalFields[b]))
          => PositionOf(output[1], BestMoveOptionalFields[a])
               < PositionOf(output[1], BestMoveOptionalFields[b])
     /\ \A a \in 1..4 :
          Has(output[1], BestMoveOptionalFields[a])
          => PositionOf(output[1], BestMoveOptionalFields[a]) > 2

\* C19 witness: a best-move line with all four optional fields, the castling
\* move written in Chess960 notation.
C19_Witness ==
  /\ IsBestMoveCall
  /\ output[1] = <<"bestmove", "e1h1", "ponder", "e7e5", "player", "3",
                   "gameid", "7", "side", "black">>

(***************************************************************************)
(* Concurrent formatter calls                                              *)
(***************************************************************************)
\* the sink lines a and b were written by the same SendRawResponses call
SameRawCall(a, b) ==
  a.thread = b.thread /\ a.call = b.call /\ a.left = b.left

\* the sink lines a and b were written for the same formatter call
SameFormatterCall(a, b) == a.thread = b.thread /\ a.call = b.call

\* C15: the lines written by one SendRawResponses call, so all lines of one
\* OutputThinkingInfo batch, are contiguous and in record order in the sink,
\* with no line of another call between them, and at most one thread is
\* writing to the sink at any time.
C15_BatchesNotInterleaved ==
  /\ \A i \in 1..Len(sink) : \A j \in (i + 1)..Len(sink) :
       SameRawCall(sink[i], sink[j])
       => /\ sink[j].k = sink[i].k + (j - i)
          /\ \A m \in i..j : SameRawCall(sink[i], sink[m])
  /\ Cardinality({t \in Threads : threads[t].pc = "write"}) <= 1
  /\ \A t \in Threads : threads[t].pc = "write" => output_mutex = t

\* C15 witness: a thread has written the first line of a batch of two and has
\* the second still to write, while the other thread waits for the lock.
C15_Witness ==
  \E t \in Threads : \E u \in Threads \ {t} :
    /\ threads[t].pc = "write"
    /\ threads[t].op = "OutputThinkingInfo"
    /\ threads[t].k = 2
    /\ Len(Head(threads[t].todo)) = 2
    /\ threads[u].pc = "lock"
    /\ threads[u].op = "OutputThinkingInfo"

\* C16: the two identification lines of one SendId call are written while the
\* output lock is held continuously: no line of another formatter call is
\* between them in the sink.
C16_SendIdNotInterleaved ==
  \A i \in 1..Len(sink) : \A j \in (i + 1)..Len(sink) :
    (sink[i].op = "SendId" /\ SameFormatterCall(sink[i], sink[j]))
    => \A m \in i..j : SameFormatterCall(sink[i], sink[m])

\* C16 witness: the sink holds the first identification line of a SendId call,
\* then a thinking-info line of the other thread, then the second
\* identification line.
C16_Witness ==
  /\ Len(sink) = 3
  /\ sink[1].text = "id name"
  /\ sink[2].text = "info"
  /\ sink[2].thread # sink[1].thread
  /\ sink[3].text = "id author"
  /\ sink[3].thread = sink[1].thread

(***************************************************************************)
(* isready                                                                 *)
(***************************************************************************)
\* how many of the response lines sent for the line are "readyok"
ReadyokCount == Cardinality({k \in 1..Len(output) : output[k] = <<"readyok">>})

\* C21: processing an isready line emits "readyok" only after the engine's
\* EnsureReady call has returned: no readyok is written while EnsureReady is
\* blocked or before it is called, and exactly one is written once it has
\* returned and the line is done.
C21_ReadyokAfterEnsureReady ==
  /\ pc \in {"EnsureReady", "readyok"}
       => ReadyokCount = 0 /\ calls = <<[op |-> "EnsureReady"]>>
  /\ (pc = "done" /\ Words(line) = <<W_isready>>)
       => /\ error = ""
          /\ calls = <<[op |-> "EnsureReady"]>>
          /\ output = << <<"readyok">> >>
  /\ ReadyokCount > 0 => (pc = "done" /\ Words(line) = <<W_isready>>)

\* C21 witness: an isready line with whitespace around the word is done; its
\* EnsureReady call has returned and one readyok has been written.
C21_Witness ==
  /\ pc = "done"
  /\ Words(line) = <<W_isready>>
  /\ line # W_isready
  /\ calls = <<[op |-> "EnsureReady"]>>
  /\ ReadyokCount = 1

(***************************************************************************)
(* The identification response                                             *)
(***************************************************************************)
\* the response lines of the line that are identification lines
IdLines ==
  {k \in 1..Len(output) :
     output[k][1] \in {"id name Lc0 v", "id author The LCZero Authors."}}

IsUciDone == pc = "done" /\ Words(line) = <<W_uci>>

\* C22: the identification response is exactly two lines, one naming the
\* engine and one naming its authorship, and each of the two includes the
\* version string.
C22_BothIdLinesVersioned ==
  IsUciDone
  => /\ IdLines = {1, 2}
     /\ output[1][1] = "id name Lc0 v"
     /\ output[2][1] = "id author The LCZero Authors."
     /\ \A k \in IdLines : Has(output[k], VersionStr)

\* C22, what SendId sends: exactly two lines, the engine's name followed by
\* the version string, and the authorship line, which is a fixed text.
C22_NameLineVersioned ==
  IsUciDone
  => /\ IdLines = {1, 2}
     /\ output[1] = <<"id name Lc0 v", VersionStr>>
     /\ output[2] = <<"id author The LCZero Authors.">>

\* C22 witness: a uci line has been answered; the authorship line is there
\* and has no version string in it.
C22_Witness ==
  /\ IsUciDone
  /\ 2 \in IdLines
  /\ output[2][1] = "id author The LCZero Authors."
  /\ ~Has(output[2], VersionStr)

(***************************************************************************)
(* EffectiveTau                                                            *)
(***************************************************************************)
\* the move count ply/2 of the call
TauMoves == tau_args.ply \div 2

\* the cutoff applies to the call
CutoffApplies(cutoff_move, m) == cutoff_move # 0 /\ m + 1 >= cutoff_move

FracMax(a, b) == IF FracLess(a, b) THEN b ELSE a

Decayed(initial, delay, decay, m) ==
  IF m < delay THEN initial
  ELSE IF m < delay + decay
    THEN Frac(initial.n * (delay + decay - m), initial.d * decay)
  ELSE Zero

\* C24: when the cutoff does not apply, initial_temperature > 0 and
\* decay_moves > 0, with m = ply/2 the result is the greater of
\* endgame_temperature and: initial_temperature while m < decay_delay_moves,
\* initial_temperature * (decay_delay_moves + decay_moves - m) / decay_moves
\* while decay_delay_moves <= m < decay_delay_moves + decay_moves, and 0 from
\* then on; so the result does not increase from one ply to the next and is
\* never below endgame_temperature.
C24_Decay ==
  (/\ tau.set
   /\ ~CutoffApplies(tau_args.cutoff_move, TauMoves)
   /\ FracLess(Zero, tau_args.initial_temperature)
   /\ tau_args.decay_moves > 0)
  => /\ tau.value =
          FracMax(tau_args.endgame_temperature,
                  Decayed(tau_args.initial_temperature,
                          tau_args.decay_delay_moves, tau_args.decay_moves,
                          TauMoves))
     /\ ~FracLess(tau.value, tau_args.endgame_temperature)
     /\ ~FracLess(tau.value,
                  EffectiveTau(tau_args.ply + 1, tau_args.initial_temperature,
                               tau_args.cutoff_move, tau_args.decay_delay_moves,
                               tau_args.decay_moves,
                               tau_args.endgame_temperature))

\* C24 witness: two moves into the game with a delay of 1 and a decay over 3
\* moves, the initial temperature 1 has decayed to 2/3, above the endgame
\* temperature 3/10.
C24_Witness ==
  /\ tau.set
  /\ tau_args.ply = 4
  /\ tau_args.cutoff_move = 0
  /\ tau_args.decay_delay_moves = 1
  /\ tau_args.decay_moves = 3
  /\ tau_args.initial_temperature = Frac(1, 1)
  /\ tau_args.endgame_temperature = Frac(3, 10)
  /\ tau.value = Frac(2, 3)

(***************************************************************************)
(* The backward search on its own                                          *)
(***************************************************************************)
\* the positions from s on at which the keyword of the search stands bounded
BoundedFrom(s) ==
  {p \in s..Len(find_args.text) :
     BoundedAt(find_args.text, find_args.keyword, p)}

\* C25: with find_last, FindBoundedKeywordOccurrence returns the greatest
\* position p >= s at which the keyword stands bounded by whitespace or a
\* string edge on both sides, and "not found" when there is no such position;
\* it never returns a position below s.
C25_LastAtOrAfterStart ==
  found.set
  => LET at == BoundedFrom(find_args.search_start_pos)
     IN found.pos = IF at = {} THEN npos ELSE Max(at)

\* C25, what the search does: a position it returns is one where the keyword
\* stands bounded, and it is the greatest such position at or after s when
\* there is one; when there is none at or after s, the search returns "not
\* found" or a bounded position before s.
C25_LastBounded ==
  found.set
  => LET at == BoundedFrom(find_args.search_start_pos)
     IN /\ found.pos # npos => found.pos \in BoundedFrom(0)
        /\ at # {} => found.pos = Max(at)

\* C25 witness: the only bounded occurrence of the keyword is before the
\* minimum position, and the search has returned it.
C25_Witness ==
  /\ found.set
  /\ BoundedFrom(find_args.search_start_pos) = {}
  /\ found.pos # npos
  /\ found.pos < find_args.search_start_pos

(***************************************************************************)
(* position startpos followed by words                                     *)
(***************************************************************************)
\* the position line starts "position startpos X...", X being one or more
\* words that are no keywords, and has no other startpos and no fen
StartposWithWords(l) ==
  /\ IsPositionLine(l)
  /\ ArgsOf(l) # <<>>
  /\ ArgsOf(l)[1] = W_startpos
  /\ Occurrences(ArgsOf(l), W_startpos) = 1
  /\ Occurrences(ArgsOf(l), W_fen) = 0
  /\ ValueTokens(ArgsOf(l), PositionKeywords, W_startpos) # <<>>

\* the same line without the words X
WithoutStartposWords(l) ==
  LET toks == ArgsOf(l)
      x == ValueTokens(toks, PositionKeywords, W_startpos)
  IN Join(<<W_position, W_startpos>> \o SubSeq(toks, 2 + Len(x), Len(toks)),
          <<SP>>)

\* C26: in a position line the words that follow startpos and are no keywords
\* are accumulated as the value of startpos and then ignored: the line raises
\* no error and invokes SetPosition with the starting position and the moves
\* of the line, as the line without those words does.
C26_StartposWordsIgnored ==
  (pc = "done" /\ StartposWithWords(line))
  => /\ error = ""
     /\ command.ok
     /\ command.params[W_startpos]
          = Join(ValueTokens(ArgsOf(line), PositionKeywords, W_startpos), <<SP>>)
     /\ Len(calls) = 1
     /\ calls[1].op = "SetPosition"
     /\ calls[1].fen = kStartposFen
     /\ calls[1].moves
          = (IF W_moves \in WordsIn(ArgsOf(line))
               THEN ValueTokens(ArgsOf(line), PositionKeywords, W_moves)
               ELSE <<>>)
     /\ LET o == ProcessLineOutcome(WithoutStartposWords(line))
        IN o.d.err = "" /\ o.d.calls = calls

\* C26 witness: "position startpos x moves e2e4" has set the starting
\* position with the move e2e4.
C26_Witness ==
  /\ pc = "done"
  /\ Words(line) = <<W_position, W_startpos, W_x, W_moves, W_e2e4>>
  /\ command.params[W_startpos] = W_x
  /\ calls = <<[op |-> "SetPosition", fen |-> kStartposFen,
                moves |-> <<W_e2e4>>]>>

====
